---- MODULE Spec2Model ----
(***************************************************************************)
(* A model of the gpu-kernel-runner orchestration (src/kernel-runner.cpp   *)
(* and src/kernel_adapter.hpp): one controlling thread walking through     *)
(* main(), and the compute device executing the commands handed to it.     *)
(***************************************************************************)
EXTENDS Integers, Sequences, FiniteSets, TLC

VARIABLES
    argv,            \* the command line, as parsed by cxxopts
    env,             \* what the machine holds: devices, files, compiler verdict
    pc,              \* the controlling thread's position in main()
    status,          \* "running", "exit_success", "exit_failure" or "aborted"
    parsed_options,  \* kernel_inspecific_cmdline_options_t of main()
    context,         \* execution_context_t
    queue,           \* commands handed to the device and not yet executed
    ri,              \* run_index_t ri of main()'s loop
    log              \* the steps taken so far, in order (history)

vars == <<argv, env, pc, status, parsed_options, context, queue, ri, log>>

-----------------------------------------------------------------------------
(* Bounds of the model *)

MaxRuns == 2
MaxDim == 2
MaxLogLen == 3

-----------------------------------------------------------------------------
(* Small helpers *)

Range(s) == {s[i] : i \in 1..Len(s)}

EmptyMap == <<>>

Buffer(size, content) == [size |-> size, content |-> content]

\* what a buffer holds: the bytes of a file, zeros, whatever fresh memory holds,
\* a copy that did not cover the buffer, or what run `run` of the kernel wrote
Content(tag, of, run) == [tag |-> tag, of |-> of, run |-> run]
FileContent(name) == Content("file", name, -1)
Zeros == Content("zero", "", -1)
Uninitialized == Content("uninit", "", -1)
Partial == Content("partial", "", -1)
KernelOutput(name, run) == Content("kernel", name, run)

\* the order in which a std::set or std::map of names is traversed
NameOrder == <<"A", "B", "X", "m", "n">>
InOrder(names) == SelectSeq(NameOrder, LAMBDA n : n \in names)

-----------------------------------------------------------------------------
(* Kernel descriptors (kernel adapters).  A descriptor is its ordered      *)
(* parameter_details(): name, kind, direction, required, and for an output *)
(* or inout buffer the input buffer whose size its size calculator returns *)

Param(n, k, d, r, s) ==
    [name |-> n, kind |-> k, direction |-> d, required |-> r, size_of |-> s]

RegisteredKeys == {"vadd", "scale", "mixed", "axpy", "fill"}

parameter_details(key) ==
    CASE key = "vadd" ->
           << Param("A", "buffer", "input", TRUE, ""),
              Param("B", "buffer", "output", TRUE, "A"),
              Param("n", "scalar", "input", TRUE, "") >>
      [] key = "scale" ->
           << Param("X", "buffer", "inout", TRUE, "X"),
              Param("n", "scalar", "input", TRUE, "") >>
      [] key = "mixed" ->
           << Param("n", "scalar", "input", TRUE, ""),
              Param("X", "buffer", "inout", TRUE, "X"),
              Param("B", "buffer", "output", TRUE, "A"),
              Param("A", "buffer", "input", TRUE, "") >>
      [] key = "axpy" ->
           << Param("A", "buffer", "input", TRUE, ""),
              Param("B", "buffer", "output", TRUE, "A"),
              Param("n", "scalar", "input", TRUE, ""),
              Param("m", "scalar", "input", FALSE, "") >>
      [] key = "fill" ->
           << Param("A", "buffer", "input", TRUE, ""),
              Param("B", "buffer", "output", TRUE, "A"),
              Param("m", "scalar", "input", FALSE, "") >>
      [] OTHER -> << >>

\* kernel_adapter::buffer_names(direction)
buffer_names(key, direction) ==
    {p.name : p \in {q \in Range(parameter_details(key)) :
                        q.direction = direction /\ q.kind = "buffer"}}

\* the free function buffer_names(adapter, dir_1, dir_2)
buffer_names2(key, dir_1, dir_2) ==
    buffer_names(key, dir_1) \cup buffer_names(key, dir_2)

scalar_parameter_details(key) ==
    {q \in Range(parameter_details(key)) : q.kind = "scalar"}

cmdline_required_scalar_argument_names(key) ==
    {q.name : q \in {p \in scalar_parameter_details(key) : p.required}}

\* KA_SIZE_CALCULATOR_BY_INPUT_BUFFER: the size of one of the input buffers
size_calculator(p, input_buffers) == input_buffers[p.size_of].size

\* kernel_adapter::output_buffer_sizes: one size per output and inout name
output_buffer_sizes(key, input_buffers) ==
    [name \in buffer_names2(key, "output", "inout") |->
        LET p == CHOOSE q \in Range(parameter_details(key)) : q.name = name
        IN  size_calculator(p, input_buffers)]

\* the names of a descriptor's preprocessor_definition_details(): each has an
\* option of its own on the command line
preprocessor_definition_names(key) ==
    IF key = "scale" THEN {"T", "U"} ELSE {}

\* the preprocessor terms a descriptor requires to be defined
cmdline_required_preprocessor_definition_terms(key) ==
    IF key = "scale" THEN {"T"} ELSE {}

\* input_sizes_are_valid and extra_validity_checks, as descriptors override them
input_sizes_are_valid(key, input_buffers) ==
    IF key = "mixed" THEN input_buffers["X"].size <= input_buffers["A"].size ELSE TRUE

extra_validity_checks(key, typed_scalars, definitions) ==
    IF key = "scale"
    THEN ~(typed_scalars["n"] = 7 /\ "T" \in DOMAIN definitions.valued)
    ELSE TRUE

\* the type a descriptor gives its scalar parameter when it marshals it
scalar_type(name) == IF name = "m" THEN "double" ELSE "int"

\* the parser of a scalar parameter: decimal text to its number
parse_cmdline_scalar_argument(text) ==
    CASE text = "4" -> 4
      [] text = "7" -> 7
      [] OTHER -> 0

-----------------------------------------------------------------------------
(* The command lines and machines the model runs *)

FileSizes == {8, 16}
BufferFileNames == {"A", "X"}

DimValues == (1..MaxDim) \cup {256, 1000}

\* what -b, -g and -o may carry: one to three numbers; <<>> is "not given"
ShortDimLists ==
    {<<a>> : a \in DimValues}
    \cup {<<a, b>> : a \in 1..MaxDim, b \in 1..MaxDim}
DimLists ==
    ShortDimLists
    \cup {<<a, b, c>> : a \in 1..MaxDim, b \in {1, MaxDim}, c \in {1, MaxDim}}

FlagValues == {"unset", "true", "false"}

BaseArgv ==
    [ cuda |-> "unset", opencl |-> "unset", device |-> 0, platform |-> <<>>,
      num_runs |-> 1, key |-> "vadd",
      block |-> <<2>>, grid |-> <<3>>, overall |-> <<>>,
      zero |-> FALSE, write_output |-> TRUE, compile_only |-> FALSE,
      scalars |-> ("n" :> "4"),
      defines |-> << <<"T", "=", "i">> >>, definition_options |-> EmptyMap,
      filenames |-> EmptyMap, output_dir |-> ".", overwrite |-> "unset" ]

BaseEnv ==
    [ cuda_devices |-> 1, opencl_platforms |-> <<1>>, compile_ok |-> TRUE,
      files |-> [n \in BufferFileNames |-> Buffer(16, FileContent(n))],
      existing_files |-> {}, written_files |-> {},
      unassigned_overwrite_allowed |-> FALSE,
      cuda_context_owns_buffers |-> TRUE,
      compilation_log |-> <<>> ]

\* backend selection flags, device and platform indices
BackendInputs ==
    {[a |-> [BaseArgv EXCEPT !.cuda = c, !.opencl = o, !.device = d, !.platform = p],
      e |-> BaseEnv] :
        c \in FlagValues, o \in FlagValues, d \in {-1, 0}, p \in {<<>>, <<0>>}}

\* what is run: kernel, backend, number of runs, flags, file sizes
RunInputs ==
    {[a |-> [BaseArgv EXCEPT !.opencl = o, !.key = k, !.num_runs = n,
                              !.zero = z, !.write_output = w, !.compile_only = c],
      e |-> [BaseEnv EXCEPT !.files = f]] :
        o \in {"unset", "true"}, k \in RegisteredKeys \cup {"foo"},
        n \in 0..MaxRuns, z \in BOOLEAN, w \in BOOLEAN, c \in BOOLEAN,
        f \in {[nm \in BufferFileNames |-> Buffer(IF nm = "A" THEN sa ELSE sx, FileContent(nm))] :
                  sa \in FileSizes, sx \in FileSizes}}

\* forced launch configuration components: block, and grid or overall or neither
LaunchInputs ==
    {[a |-> [BaseArgv EXCEPT !.block = b, !.grid = go[1], !.overall = go[2]],
      e |-> BaseEnv] :
        b \in DimLists \cup {<<>>},
        go \in {<< <<>>, <<>> >>} \cup {<<d, <<>> >> : d \in DimLists}
                \cup {<< <<>>, d>> : d \in DimLists}}

\* both grid and overall forced
OverSpecifiedInputs ==
    {[a |-> [BaseArgv EXCEPT !.block = b, !.grid = g, !.overall = o, !.opencl = cl],
      e |-> BaseEnv] :
        b \in {<<>>, <<2>>}, g \in ShortDimLists, o \in ShortDimLists,
        cl \in {"unset", "true"}}

\* scalars given or not, compilation succeeding or not
MiscInputs ==
    {[a |-> [BaseArgv EXCEPT !.scalars = s, !.key = k, !.opencl = o],
      e |-> [BaseEnv EXCEPT !.compile_ok = ok]] :
        s \in {EmptyMap, ("n" :> "4"), ("n" :> "7")}, k \in RegisteredKeys,
        o \in {"unset", "true"}, ok \in BOOLEAN}

\* input files missing or of sizes the descriptor rejects, scalars it rejects
ValidationInputs ==
    {[a |-> [BaseArgv EXCEPT !.key = k, !.scalars = s, !.opencl = o],
      e |-> [BaseEnv EXCEPT !.files = f]] :
        k \in RegisteredKeys, s \in {("n" :> "4"), ("n" :> "7")}, o \in {"unset", "true"},
        f \in {[nm \in present |-> Buffer(IF nm = "A" THEN 8 ELSE 16, FileContent(nm))] :
                  present \in SUBSET BufferFileNames}}

\* the devices of the machine, and the device and platform asked for
DeviceInputs ==
    {[a |-> [BaseArgv EXCEPT !.opencl = o, !.device = d, !.platform = p],
      e |-> [BaseEnv EXCEPT !.cuda_devices = c, !.opencl_platforms = ps]] :
        o \in {"unset", "true"}, d \in 0..2, p \in {<<>>, <<1>>},
        c \in 0..2, ps \in {<<>>, <<0>>, <<1>>, <<2>>, <<1, 2>>, <<2, 1>>, <<0, 1>>}}

\* what is acquired, and who owns the device memory under CUDA
ResourceInputs ==
    {[a |-> [BaseArgv EXCEPT !.opencl = o, !.key = k, !.compile_only = c],
      e |-> [BaseEnv EXCEPT !.cuda_context_owns_buffers = own]] :
        o \in {"unset", "true"}, k \in RegisteredKeys, c \in BOOLEAN, own \in BOOLEAN}

\* what the compiler reports: a log of spaces, tabs, other characters and NULs
NUL == "NUL"
LogCharacters == {" ", "\t", "x", NUL}
CompilationLogs == UNION {[1..n -> LogCharacters] : n \in 0..MaxLogLen}
CompilationInputs ==
    {[a |-> BaseArgv, e |-> [BaseEnv EXCEPT !.compile_ok = ok, !.compilation_log = l]] :
        ok \in BOOLEAN, l \in CompilationLogs}

\* scalars of the descriptor given on the command line, optional ones included
ScalarTexts ==
    {EmptyMap, ("n" :> "4"), ("m" :> "7"), ("n" :> "4") @@ ("m" :> "7"),
     ("n" :> "7") @@ ("m" :> "4")}
ScalarInputs ==
    UNION {{[a |-> [BaseArgv EXCEPT !.key = k, !.scalars = s, !.opencl = o],
             e |-> BaseEnv] :
                o \in {"unset", "true"},
                s \in {sc \in ScalarTexts :
                          DOMAIN sc \subseteq {q.name : q \in scalar_parameter_details(k)}}} :
           k \in {"axpy", "fill"}}

\* preprocessor definitions: through -D, through the option of the term, or both
DefinitionStrings ==
    { <<"T">>, <<"T", "=", "i">>, <<"T", "=">>, <<"=", "i">>, <<"U">>, <<"U", "=", "T">> }
DefinitionInputs ==
    {[a |-> [BaseArgv EXCEPT !.key = k, !.defines = d, !.definition_options = o],
      e |-> BaseEnv] :
        k \in {"scale", "vadd"},
        d \in {<<>>} \cup {<<x>> : x \in DefinitionStrings}
               \cup {<<x, y>> : x \in {<<"U">>, <<"=", "i">>, <<"T", "=", "i">>},
                                  y \in DefinitionStrings},
        o \in {EmptyMap, ("T" :> "f"), ("U" :> "f")}}

\* output files that exist already, the output directory, the overwrite flag,
\* and the value the never assigned overwrite_allowed happens to hold
OverwriteInputs ==
    {[a |-> [BaseArgv EXCEPT !.key = k, !.overwrite = w, !.output_dir = dir,
                              !.filenames = fn],
      e |-> [BaseEnv EXCEPT !.existing_files = ex, !.unassigned_overwrite_allowed = u]] :
        k \in {"vadd", "scale"}, w \in FlagValues, dir \in {".", "out"},
        fn \in {EmptyMap, ("B" :> "res")},
        u \in BOOLEAN,
        ex \in {{}, {<<"B.out">>}, {<<"out", "B.out">>}, {<<"res">>}, {<<"X.out">>},
                 {<<"out", "X.out">>}, {<<"out", "out", "X.out">>}}}

Inputs ==
    CompilationInputs \cup ScalarInputs \cup OverwriteInputs \cup DefinitionInputs \cup ResourceInputs \cup DeviceInputs \cup ValidationInputs \cup BackendInputs \cup RunInputs \cup LaunchInputs \cup OverSpecifiedInputs \cup MiscInputs

-----------------------------------------------------------------------------
(* State after construction *)

NoLaunchConfig ==
    [block_dimensions |-> <<>>, grid_dimensions |-> <<>>,
     overall_grid_dimensions |-> <<>>, dynamic_shared_memory_size |-> <<>>]

DefaultOptions ==
    [ gpu_ecosystem |-> "cuda", gpu_device_id |-> 0, platform_id |-> <<>>,
      num_runs |-> 0, key |-> "",
      forced_launch_config_components |-> NoLaunchConfig,
      zero_output_buffers |-> FALSE, write_output_buffers_to_files |-> FALSE,
      compile_only |-> FALSE,
      preprocessor_definitions |-> <<>>, preprocessor_value_definitions |-> EmptyMap,
      output_buffer_base_path |-> ".", overwrite_allowed |-> FALSE ]

\* execution_context_t execution_context {}
EmptyContext ==
    [ created |-> FALSE,
      options |-> DefaultOptions,
      ecosystem |-> "cuda",
      device_exists |-> FALSE,
      opencl_platform |-> <<>>,
      kernel_adapter_ |-> "",
      built |-> FALSE,
      host_inputs |-> EmptyMap, host_outputs |-> EmptyMap,
      device_inputs |-> EmptyMap, device_outputs |-> EmptyMap,
      filenames |-> [inputs |-> EmptyMap, outputs |-> EmptyMap],
      scalar_raw |-> EmptyMap, scalar_typed |-> EmptyMap,
      finalized_preprocessor_definitions |-> [valued |-> EmptyMap, valueless |-> {}],
      finalized_arguments |-> [marshalled |-> FALSE, pointers |-> <<>>, sizes |-> <<>>],
      launch |-> [configured |-> FALSE, components |-> NoLaunchConfig, full_blocks |-> FALSE],
      released |-> <<>> ]

Init ==
    /\ \E i \in Inputs : argv = i.a /\ env = i.e
    /\ pc = "parse_command_line_initially"
    /\ status = "running"
    /\ parsed_options = DefaultOptions
    /\ context = EmptyContext
    /\ queue = <<>>
    /\ ri = 0
    /\ log = <<>>

Event(name) == [ev |-> name, run |-> -1]
\* a device synchronization call: where in the code, and on which backend's device
SyncEvent(at, device, run) == [ev |-> "synchronize", run |-> run, at |-> at, device |-> device]
RunEvent(name, run) == [ev |-> name, run |-> run]

\* die(), exit(EXIT_FAILURE)
Die(reason) ==
    /\ status' = "exit_failure"
    /\ pc' = "exited"
    /\ log' = Append(log, Event(reason))

\* an exception nobody catches: std::terminate
Throw(reason) ==
    /\ status' = "aborted"
    /\ pc' = "exited"
    /\ log' = Append(log, Event(reason))

Step(name, next) ==
    /\ pc' = next
    /\ log' = Append(log, Event(name))
    /\ status' = status

-----------------------------------------------------------------------------
(* main(): the call that follows each call, where main() does not branch *)

\* (mutation) the launch is configured before the arguments are marshaled
main_after_configuring_first(call) ==
    CASE call = "parse_command_line_initially" -> "initialize_execution_context"
      [] call = "initialize_execution_context" -> "parse_command_line_for_kernel"
      [] call = "parse_command_line_for_kernel" -> "build_kernel"
      [] call = "build_kernel" -> "after_build"
      [] call = "after_build" -> "read_buffers_from_files"
      [] call = "read_buffers_from_files" -> "verify_input_arguments"
      [] call = "verify_input_arguments" -> "create_host_side_output_buffers"
      [] call = "create_host_side_output_buffers" -> "create_device_side_buffers"
      [] call = "create_device_side_buffers" -> "generate_additional_scalar_arguments"
      [] call = "generate_additional_scalar_arguments" -> "copy_input_buffers_to_device"
      [] call = "copy_input_buffers_to_device" -> "configure_launch"
      [] call = "configure_launch" -> "finalize_kernel_arguments"
      [] call = "finalize_kernel_arguments" -> "run_loop"
      [] call = "copy_outputs_from_device" -> "write_buffers_to_files"
      [] call = "write_buffers_to_files" -> "free_resources"
      [] OTHER -> "exited"

main_after(call) ==
    CASE call = "parse_command_line_initially" -> "initialize_execution_context"
      [] call = "initialize_execution_context" -> "parse_command_line_for_kernel"
      [] call = "parse_command_line_for_kernel" -> "build_kernel"
      [] call = "build_kernel" -> "after_build"
      [] call = "after_build" -> "read_buffers_from_files"
      [] call = "read_buffers_from_files" -> "verify_input_arguments"
      [] call = "verify_input_arguments" -> "create_host_side_output_buffers"
      [] call = "create_host_side_output_buffers" -> "create_device_side_buffers"
      [] call = "create_device_side_buffers" -> "generate_additional_scalar_arguments"
      [] call = "generate_additional_scalar_arguments" -> "copy_input_buffers_to_device"
      [] call = "copy_input_buffers_to_device" -> "finalize_kernel_arguments"
      [] call = "finalize_kernel_arguments" -> "configure_launch"
      [] call = "configure_launch" -> "run_loop"
      [] call = "copy_outputs_from_device" -> "write_buffers_to_files"
      [] call = "write_buffers_to_files" -> "free_resources"
      [] OTHER -> "exited"

\* perform_single_run: the call that follows each call
perform_single_run_after(call) ==
    CASE call = "zero_output_buffers" -> "reset_working_copy_of_inout_buffers"
      [] call = "reset_working_copy_of_inout_buffers" -> "launch_kernel"
      [] call = "launch_kernel" -> "sync_kernel"
      [] OTHER -> "run_loop"

-----------------------------------------------------------------------------
(* parse_command_line_initially *)

specified(flag) == flag # "unset"
use_opencl(a) == IF specified(a.opencl) THEN a.opencl = "true" ELSE FALSE
use_cuda_at_first(a) == IF specified(a.cuda) THEN a.cuda = "true" ELSE TRUE

\* (mutation) with both backends asked for, OpenCL is used
gpu_ecosystem_preferring_opencl(a) ==
    IF ~use_cuda_at_first(a) /\ ~use_opencl(a) THEN ""
    ELSE IF use_opencl(a) THEN "opencl" ELSE "cuda"

\* lines 436-446: which backend is used; "" when the process dies
gpu_ecosystem(a) ==
    IF ~use_cuda_at_first(a) /\ ~use_opencl(a) THEN ""
    ELSE IF use_cuda_at_first(a) /\ use_opencl(a)
         THEN (IF specified(a.cuda) /\ specified(a.opencl) THEN "" ELSE "opencl")
         ELSE (IF use_cuda_at_first(a) THEN "cuda" ELSE "opencl")

\* while (dims.size() < 3) { dims.push_back(1u); }
pad_dimensions(dims) ==
    [i \in 1..3 |-> IF i <= Len(dims) THEN dims[i] ELSE 1]

\* (mutation) -o is stored where -g belongs
forced_components_overall_as_grid(a) ==
    [block_dimensions |-> IF Len(a.block) > 0 THEN pad_dimensions(a.block) ELSE <<>>,
     grid_dimensions |-> IF Len(a.grid) > 0 THEN pad_dimensions(a.grid)
                         ELSE IF Len(a.overall) > 0 THEN pad_dimensions(a.overall) ELSE <<>>,
     overall_grid_dimensions |-> <<>>,
     dynamic_shared_memory_size |-> <<>>]

forced_components(a) ==
    [block_dimensions |-> IF Len(a.block) > 0 THEN pad_dimensions(a.block) ELSE <<>>,
     grid_dimensions |-> IF Len(a.grid) > 0 THEN pad_dimensions(a.grid) ELSE <<>>,
     overall_grid_dimensions |-> IF Len(a.overall) > 0 THEN pad_dimensions(a.overall) ELSE <<>>,
     dynamic_shared_memory_size |-> <<>>]

\* (mutation) -g together with -o is let through
initial_parse_failure_allowing_grid_and_overall(a) ==
    CASE gpu_ecosystem(a) = "" -> "die_backend_selection"
      [] a.device < 0 -> "die_negative_device"
      [] Len(a.platform) > 0 /\ ~use_opencl(a) -> "die_platform_for_cuda"
      [] a.num_runs <= 0 -> "die_num_runs"
      [] a.key \notin RegisteredKeys -> "die_unknown_key"
      [] OTHER -> ""

\* (mutation) a key no kernel adapter is registered for is let through
initial_parse_failure_allowing_unknown_key(a) ==
    CASE gpu_ecosystem(a) = "" -> "die_backend_selection"
      [] a.device < 0 -> "die_negative_device"
      [] Len(a.platform) > 0 /\ ~use_opencl(a) -> "die_platform_for_cuda"
      [] a.num_runs <= 0 -> "die_num_runs"
      [] Len(a.grid) > 0 /\ Len(a.overall) > 0 -> "die_grid_and_overall"
      [] OTHER -> ""

\* the first fatal condition of parse_command_line_initially, "" if none
initial_parse_failure(a) ==
    CASE gpu_ecosystem(a) = "" -> "die_backend_selection"
      [] a.device < 0 -> "die_negative_device"
      [] Len(a.platform) > 0 /\ ~use_opencl(a) -> "die_platform_for_cuda"
      [] a.num_runs <= 0 -> "die_num_runs"
      [] Len(a.grid) > 0 /\ Len(a.overall) > 0 -> "die_grid_and_overall"
      [] a.key \notin RegisteredKeys -> "die_unknown_key"
      [] OTHER -> ""

ParseCommandLineInitially ==
    /\ pc = "parse_command_line_initially"
    /\ IF initial_parse_failure(argv) # ""
       THEN /\ Die(initial_parse_failure(argv))
            /\ UNCHANGED parsed_options
       ELSE /\ parsed_options' =
                [ gpu_ecosystem |-> gpu_ecosystem(argv),
                  gpu_device_id |-> argv.device,
                  platform_id |-> IF Len(argv.platform) > 0 THEN argv.platform ELSE <<0>>,
                  num_runs |-> argv.num_runs,
                  key |-> argv.key,
                  forced_launch_config_components |-> forced_components(argv),
                  zero_output_buffers |-> argv.zero,
                  write_output_buffers_to_files |-> argv.write_output,
                  compile_only |-> argv.compile_only,
                  preprocessor_definitions |-> argv.defines,
                  preprocessor_value_definitions |-> EmptyMap,
                  output_buffer_base_path |-> argv.output_dir,
                  overwrite_allowed |-> env.unassigned_overwrite_allowed ]
            /\ Step("backend_selected", main_after(pc))
    /\ UNCHANGED <<argv, env, context, queue, ri>>

-----------------------------------------------------------------------------
(* initialize_execution_context *)

\* ensure_gpu_device_validity: the first fatal condition, "" if none
ensure_gpu_device_validity(ecosystem, platform_id, device_id, e) ==
    LET actual_platform_id == IF Len(platform_id) > 0 THEN platform_id[1] ELSE 0
    IN  CASE ecosystem = "opencl" /\ Len(e.opencl_platforms) = 0 -> "die_no_platforms"
          [] ecosystem = "opencl" /\ Len(e.opencl_platforms) <= actual_platform_id
                -> "die_no_such_platform"
          [] ecosystem = "opencl" /\ e.opencl_platforms[actual_platform_id + 1] = 0
                -> "die_no_opencl_devices"
          [] ecosystem = "cuda" /\ e.cuda_devices = 0 -> "die_no_cuda_devices"
          [] device_id < 0 \/ device_id >= e.cuda_devices -> "die_invalid_device"
          [] OTHER -> ""

\* devices[parsed_options.gpu_device_id] of the context made for platforms[0]:
\* whether that vector has such an element
opencl_device_exists(options, e) ==
    options.gpu_device_id < e.opencl_platforms[1]

\* the execution context initialize_execution_context returns; under OpenCL its
\* context, device and queue are made on platforms[0]
initialize_execution_context(options, device_exists) ==
    [EmptyContext EXCEPT
        !.created = TRUE,
        !.options = options,
        !.ecosystem = options.gpu_ecosystem,
        !.device_exists = device_exists,
        !.opencl_platform = IF options.gpu_ecosystem = "opencl" THEN <<0>> ELSE <<>>,
        !.kernel_adapter_ = options.key]

\* Indexing the vector of devices past its end is undefined: the process may
\* crash there, or go on with whatever the read produced.
InitializeExecutionContext ==
    /\ pc = "initialize_execution_context"
    /\ LET failure == ensure_gpu_device_validity(parsed_options.gpu_ecosystem,
                          parsed_options.platform_id, parsed_options.gpu_device_id, env)
           bound == <<Event("device_bound"), Event("descriptor_bound")>>
       IN  \/ /\ failure # ""
              /\ Die(failure) /\ UNCHANGED context
           \/ /\ failure = ""
              /\ parsed_options.gpu_ecosystem = "opencl" => opencl_device_exists(parsed_options, env)
              /\ context' = initialize_execution_context(parsed_options, TRUE)
              /\ pc' = main_after(pc) /\ log' = log \o bound /\ status' = status
           \/ /\ failure = ""
              /\ parsed_options.gpu_ecosystem = "opencl"
              /\ ~opencl_device_exists(parsed_options, env)
              /\ \/ /\ context' = initialize_execution_context(parsed_options, FALSE)
                    /\ pc' = main_after(pc) /\ log' = log \o bound /\ status' = status
                 \/ /\ Throw("crash_no_such_opencl_device") /\ UNCHANGED context
    /\ UNCHANGED <<argv, env, parsed_options, queue, ri>>

-----------------------------------------------------------------------------
(* parse_command_line_for_kernel *)

\* a file path is the sequence of its components; "." components name nothing
Normal(path) == SelectSeq(path, LAMBDA c : c # ".")
maybe_prepend_base_dir(base_dir, path) == <<base_dir>> \o path
exists(path, e) == Normal(path) \in e.existing_files

\* a definition string is the sequence of its characters
\* std::string::find of a character: its first position, 0 if there is none
find(definition, ch) ==
    IF \E i \in 1..Len(definition) : definition[i] = ch
    THEN CHOOSE i \in 1..Len(definition) :
            /\ definition[i] = ch
            /\ \A j \in 1..(i - 1) : definition[j] # ch
    ELSE 0

RECURSIVE substr(_, _, _)
substr(definition, first, last) ==
    IF first > last THEN "" ELSE definition[first] \o substr(definition, first + 1, last)

\* the term a definition string defines: what precedes its '=', if it has one
defined_term(definition) ==
    IF find(definition, "=") = 0 THEN substr(definition, 1, Len(definition))
    ELSE substr(definition, 1, find(definition, "=") - 1)

get_defined_terms(definitions) == {defined_term(d) : d \in Range(definitions)}

\* (mutation) only the terms defined through the generic flag are counted
ensure_necessary_terms_were_defined_by_flag_only(options, key) ==
    cmdline_required_preprocessor_definition_terms(key)
        \ get_defined_terms(options.preprocessor_definitions)

\* ensure_necessary_terms_were_defined: the set required_but_undefined
ensure_necessary_terms_were_defined(options, key) ==
    LET terms_defined_by_define_options == get_defined_terms(options.preprocessor_definitions)
        terms_defined_by_specific_options == DOMAIN options.preprocessor_value_definitions
        all_defined_terms ==
            terms_defined_by_define_options \cup terms_defined_by_specific_options
    IN  cmdline_required_preprocessor_definition_terms(key) \ all_defined_terms

\* finalize_preprocessor_definitions, from definition i of the generic flag on
RECURSIVE finalize_from(_, _, _)
finalize_from(finalized, definitions, i) ==
    IF i > Len(definitions) THEN finalized
    ELSE LET definition == definitions[i]
             equals_pos == find(definition, "=")
             term == substr(definition, 1, equals_pos - 1)
             value == substr(definition, equals_pos + 1, Len(definition))
         IN  finalize_from(
                CASE equals_pos = 0 ->
                        [finalized EXCEPT !.valueless = @ \cup {substr(definition, 1, Len(definition))}]
                  [] equals_pos = 1 -> finalized
                  [] OTHER ->
                        IF term \in DOMAIN finalized.valued THEN finalized
                        ELSE [finalized EXCEPT !.valued = (term :> value) @@ @],
                definitions, i + 1)

finalize_preprocessor_definitions(options) ==
    finalize_from([valued |-> options.preprocessor_value_definitions, valueless |-> {}],
                  options.preprocessor_definitions, 1)

\* the file name of an output-only buffer: the one given for it, or NAME.out
output_filename(a, buffer_name) ==
    IF buffer_name \in DOMAIN a.filenames THEN <<a.filenames[buffer_name]>>
    ELSE <<buffer_name \o ".out">>

\* the output-only buffers whose file exists already
existing_output_files(ctx, a, e) ==
    {n \in buffer_names(ctx.kernel_adapter_, "output") : exists(output_filename(a, n), e)}

\* context.buffers.filenames as parse_command_line_for_kernel sets them
buffer_filenames(ctx, a) ==
    [inputs |->
        [n \in buffer_names2(ctx.kernel_adapter_, "input", "inout") |->
            IF n \in DOMAIN a.filenames THEN <<a.filenames[n]>> ELSE <<n>>],
     outputs |->
        IF ctx.options.write_output_buffers_to_files
        THEN [n \in buffer_names2(ctx.kernel_adapter_, "output", "inout") |->
                IF n \in buffer_names(ctx.kernel_adapter_, "inout")
                THEN <<ctx.options.output_buffer_base_path, n \o ".out">>
                ELSE output_filename(a, n)]
        ELSE EmptyMap]

\* the preprocessor definitions given through the options of the required terms
specific_definitions(ctx, a) ==
    [t \in cmdline_required_preprocessor_definition_terms(ctx.kernel_adapter_)
            \cap DOMAIN a.definition_options |-> a.definition_options[t]]

\* the first way parse_command_line_for_kernel ends the process, "" if none
kernel_parse_failure(ctx, a, e) ==
    LET ka == ctx.kernel_adapter_
        options == [ctx.options EXCEPT
                        !.preprocessor_value_definitions = specific_definitions(ctx, a)]
    IN  CASE /\ ctx.options.write_output_buffers_to_files
             /\ existing_output_files(ctx, a, e) # {}
             /\ ~ctx.options.overwrite_allowed -> "throw_would_overwrite"
          [] \E arg_name \in cmdline_required_scalar_argument_names(ka) :
                arg_name \notin DOMAIN a.scalars -> "exit_scalar_not_specified"
          [] ensure_necessary_terms_were_defined(options, ka) # {}
                -> "exit_definitions_not_specified"
          [] OTHER -> ""

ParseCommandLineForKernel ==
    /\ pc = "parse_command_line_for_kernel"
    /\ LET failure == kernel_parse_failure(context, argv, env)
           required == cmdline_required_scalar_argument_names(context.kernel_adapter_)
           options == [context.options EXCEPT
                          !.preprocessor_value_definitions = specific_definitions(context, argv)]
       IN  CASE failure = "throw_would_overwrite" -> Throw(failure) /\ UNCHANGED context
             [] failure \notin {"", "throw_would_overwrite"} -> Die(failure) /\ UNCHANGED context
             [] OTHER ->
                /\ context' = [context EXCEPT
                        !.options = options,
                        !.filenames = buffer_filenames(context, argv),
                        !.scalar_raw = [n \in required |-> argv.scalars[n]],
                        !.scalar_typed =
                            [n \in required |-> parse_cmdline_scalar_argument(argv.scalars[n])],
                        !.finalized_preprocessor_definitions =
                            finalize_preprocessor_definitions(options)]
                /\ Step("kernel_options_parsed", main_after(pc))
    /\ UNCHANGED <<argv, env, parsed_options, queue, ri>>

-----------------------------------------------------------------------------
(* build_kernel, and main() up to the compile-only return *)

isspace(ch) == ch \in {" ", "\t"}

\* a logging call: the level and what is logged
LogEvent(name, level) == [ev |-> name, run |-> -1, level |-> level]

\* (mutation) a NUL the log ends with counts as one of its characters
maybe_print_compilation_log_counting_final_nul(compilation_log, compilation_failed) ==
    LET end == Len(compilation_log)
        print_the_log == compilation_failed \/ ~(\A i \in 1..end : isspace(compilation_log[i]))
        level == IF compilation_failed THEN "err" ELSE "debug"
    IN  IF ~print_the_log THEN <<>>
        ELSE (IF compilation_log = <<>>
              THEN <<LogEvent("compilation_log_is_empty", "debug")>> ELSE <<>>)
             \o <<LogEvent("compilation_log", level)>>

\* maybe_print_compilation_log: the logging calls it makes
maybe_print_compilation_log(compilation_log, compilation_failed) ==
    LET end == Len(compilation_log)
                - (IF compilation_log # <<>> /\ compilation_log[Len(compilation_log)] = NUL
                   THEN 1 ELSE 0)
        print_the_log == compilation_failed \/ ~(\A i \in 1..end : isspace(compilation_log[i]))
        level == IF compilation_failed THEN "err" ELSE "debug"
    IN  IF ~print_the_log THEN <<>>
        ELSE (IF compilation_log = <<>>
              THEN <<LogEvent("compilation_log_is_empty", "debug")>> ELSE <<>>)
             \o <<LogEvent("compilation_log", level)>>

\* (mutation) a failed compilation is reported and main() goes on
BuildKernelReturningAfterFailure ==
    /\ pc = "build_kernel"
    /\ context' = [context EXCEPT !.built = env.compile_ok]
    /\ pc' = main_after(pc)
    /\ status' = status
    /\ log' = log \o maybe_print_compilation_log(env.compilation_log, ~env.compile_ok)
                  \o <<Event(IF env.compile_ok THEN "source_compiled"
                              ELSE "die_compilation_failed")>>
    /\ UNCHANGED <<argv, env, parsed_options, queue, ri>>

\* build_kernel: build_cuda_kernel or build_opencl_kernel reports the log of the
\* compilation and returns the compiled kernel, and a failed compilation ends
\* the process
BuildKernel ==
    /\ pc = "build_kernel"
    /\ log' = log \o maybe_print_compilation_log(env.compilation_log, ~env.compile_ok)
                  \o <<Event(IF env.compile_ok THEN "source_compiled"
                              ELSE "die_compilation_failed")>>
    /\ IF env.compile_ok
       THEN /\ context' = [context EXCEPT !.built = TRUE]
            /\ pc' = main_after(pc)
            /\ status' = status
       ELSE /\ status' = "exit_failure"
            /\ pc' = "exited"
            /\ UNCHANGED context
    /\ UNCHANGED <<argv, env, parsed_options, queue, ri>>

\* a device resource of the execution context
Resource(kind, name) == [kind |-> kind, name |-> name]

device_buffer_resources(ctx) ==
    [i \in 1..Len(InOrder(DOMAIN ctx.device_inputs)) |->
        Resource("input buffer", InOrder(DOMAIN ctx.device_inputs)[i])]
    \o [i \in 1..Len(InOrder(DOMAIN ctx.device_outputs)) |->
        Resource("output buffer", InOrder(DOMAIN ctx.device_outputs)[i])]

\* what the destructor of main()'s execution_context_t releases when main()
\* returns: the cl:: wrappers release what they hold, the CUDA handles are raw
destroy_execution_context(ctx) ==
    IF ctx.ecosystem = "opencl"
    THEN device_buffer_resources(ctx)
            \o (IF ctx.built THEN <<Resource("module", "")>> ELSE <<>>)
            \o <<Resource("context", "")>>
    ELSE <<>>

\* (mutation) main() goes on to the buffers whether or not compile_only is set
AfterBuildWithoutCompileOnlyReturn ==
    /\ pc = "after_build"
    /\ Step("compile_only_not_requested", main_after(pc))
    /\ UNCHANGED <<argv, env, parsed_options, context, queue, ri>>

\* maybe_write_intermediate_representation; if (compile_only) return EXIT_SUCCESS
AfterBuild ==
    /\ pc = "after_build"
    /\ IF context.options.compile_only
       THEN /\ status' = "exit_success"
            /\ pc' = "exited"
            /\ log' = Append(log, Event("compile_only_return"))
            /\ context' = [context EXCEPT !.released = @ \o destroy_execution_context(context)]
       ELSE Step("compile_only_not_requested", main_after(pc)) /\ UNCHANGED context
    /\ UNCHANGED <<argv, env, parsed_options, queue, ri>>

-----------------------------------------------------------------------------
(* Host and device buffers *)

\* read_buffers_from_files(buffer_names, filenames, buffer_directory)
read_buffers_from_files(names, filenames, files) ==
    [n \in names |-> files[filenames[n][Len(filenames[n])]]]

\* filesystem::file_size and read_input_file throw for a file that is not there
ReadBuffersFromFiles ==
    /\ pc = "read_buffers_from_files"
    /\ LET names == buffer_names2(context.kernel_adapter_, "input", "inout")
           filenames == context.filenames.inputs
       IN  IF \E n \in names : filenames[n][Len(filenames[n])] \notin DOMAIN env.files
           THEN Throw("throw_no_such_input_file") /\ UNCHANGED context
           ELSE /\ context' = [context EXCEPT !.host_inputs =
                        read_buffers_from_files(names, filenames, env.files)]
                /\ Step("input_buffers_read", main_after(pc))
    /\ UNCHANGED <<argv, env, parsed_options, queue, ri>>

\* (mutation) the descriptor's own checks are not consulted
verify_input_arguments_failure_without_descriptor_checks(ctx) ==
    LET ka == ctx.kernel_adapter_
    IN  CASE DOMAIN ctx.host_inputs # buffer_names2(ka, "input", "inout")
                -> "exit_missing_buffers"
          [] \E r \in cmdline_required_scalar_argument_names(ka) :
                r \notin DOMAIN ctx.scalar_raw -> "exit_missing_scalar"
          [] OTHER -> ""

\* verify_input_arguments: the first reason it exits for, "" if none
verify_input_arguments_failure(ctx) ==
    LET ka == ctx.kernel_adapter_
    IN  CASE DOMAIN ctx.host_inputs # buffer_names2(ka, "input", "inout")
                -> "exit_missing_buffers"
          [] \E r \in cmdline_required_scalar_argument_names(ka) :
                r \notin DOMAIN ctx.scalar_raw -> "exit_missing_scalar"
          [] ~input_sizes_are_valid(ka, ctx.host_inputs) -> "exit_input_sizes_invalid"
          [] ~extra_validity_checks(ka, ctx.scalar_typed,
                                    ctx.finalized_preprocessor_definitions)
                -> "exit_combination_invalid"
          [] OTHER -> ""

VerifyInputArguments ==
    /\ pc = "verify_input_arguments"
    /\ IF verify_input_arguments_failure(context) # ""
       THEN Die(verify_input_arguments_failure(context))
       ELSE Step("input_arguments_verified", main_after(pc))
    /\ UNCHANGED <<argv, env, parsed_options, context, queue, ri>>

\* (mutation) host_buffer_type{size}: a buffer of one element
create_host_side_output_buffers_of_one_element(ctx) ==
    LET sizes == output_buffer_sizes(ctx.kernel_adapter_, ctx.host_inputs)
    IN  [name \in DOMAIN sizes \cup DOMAIN ctx.host_outputs |->
            IF name \in DOMAIN ctx.host_outputs THEN ctx.host_outputs[name]
            ELSE Buffer(1, Zeros)]

\* std::transform of the sizes into host_side.outputs: host_buffer_type(size)
create_host_side_output_buffers(ctx) ==
    LET sizes == output_buffer_sizes(ctx.kernel_adapter_, ctx.host_inputs)
    IN  [name \in DOMAIN sizes \cup DOMAIN ctx.host_outputs |->
            IF name \in DOMAIN ctx.host_outputs THEN ctx.host_outputs[name]
            ELSE Buffer(sizes[name], Zeros)]

CreateHostSideOutputBuffers ==
    /\ pc = "create_host_side_output_buffers"
    /\ context' = [context EXCEPT !.host_outputs = create_host_side_output_buffers(context)]
    /\ Step("host_output_buffers_created", main_after(pc))
    /\ UNCHANGED <<argv, env, parsed_options, queue, ri>>

\* create_device_side_buffer: fresh device memory of the given size
create_device_side_buffer(name, size) == Buffer(size, Uninitialized)

\* create_device_side_buffers(ecosystem, device_id, opencl_context, host_side_buffers)
create_device_side_buffers(host_side_buffers) ==
    [name \in DOMAIN host_side_buffers |->
        create_device_side_buffer(name, host_side_buffers[name].size)]

\* (mutation) both collections are created from the host-side inputs
CreateDeviceSideBuffersFromInputsTwice ==
    /\ pc = "create_device_side_buffers"
    /\ context' = [context EXCEPT
            !.device_inputs = create_device_side_buffers(context.host_inputs),
            !.device_outputs = create_device_side_buffers(context.host_inputs)]
    /\ Step("device_buffers_created", main_after(pc))
    /\ UNCHANGED <<argv, env, parsed_options, queue, ri>>

\* create_device_side_buffers(context)
CreateDeviceSideBuffers ==
    /\ pc = "create_device_side_buffers"
    /\ context' = [context EXCEPT
            !.device_inputs = create_device_side_buffers(context.host_inputs),
            !.device_outputs = create_device_side_buffers(context.host_outputs)]
    /\ Step("device_buffers_created", main_after(pc))
    /\ UNCHANGED <<argv, env, parsed_options, queue, ri>>

\* kernel_adapter::generate_additional_scalar_arguments: { } by default; the
\* descriptor of "axpy" overrides it and returns a value for each of its scalars
generate_additional_scalar_arguments(ctx) ==
    IF ctx.kernel_adapter_ = "axpy" THEN ("m" :> 1) @@ ("n" :> 99) ELSE EmptyMap

\* (mutation) a generated scalar replaces the one already there under its name
GenerateAdditionalScalarArgumentsReplacing ==
    /\ pc = "generate_additional_scalar_arguments"
    /\ LET generated_scalars == generate_additional_scalar_arguments(context)
       IN  context' = [context EXCEPT !.scalar_typed =
                [n \in DOMAIN context.scalar_typed \cup DOMAIN generated_scalars |->
                    IF n \in DOMAIN generated_scalars THEN generated_scalars[n]
                    ELSE context.scalar_typed[n]]]
    /\ Step("additional_scalars_generated", main_after(pc))
    /\ UNCHANGED <<argv, env, parsed_options, queue, ri>>

\* generate_additional_scalar_arguments: typed.insert(begin, end) leaves the
\* entries that are there as they are
GenerateAdditionalScalarArguments ==
    /\ pc = "generate_additional_scalar_arguments"
    /\ LET generated_scalars == generate_additional_scalar_arguments(context)
       IN  context' = [context EXCEPT !.scalar_typed =
                [n \in DOMAIN context.scalar_typed \cup DOMAIN generated_scalars |->
                    IF n \in DOMAIN context.scalar_typed THEN context.scalar_typed[n]
                    ELSE generated_scalars[n]]]
    /\ Step("additional_scalars_generated", main_after(pc))
    /\ UNCHANGED <<argv, env, parsed_options, queue, ri>>

\* copy_buffer_to_device: a blocking copy of host_side_buffer.size() bytes
copy_buffer_to_device(device_side_buffer, host_side_buffer) ==
    IF host_side_buffer.size = device_side_buffer.size
    THEN [device_side_buffer EXCEPT !.content = host_side_buffer.content]
    ELSE [device_side_buffer EXCEPT !.content = Partial]

copy_input_buffers_to_device(ctx) ==
    [name \in DOMAIN ctx.device_inputs |->
        IF name \in DOMAIN ctx.host_inputs
        THEN copy_buffer_to_device(ctx.device_inputs[name], ctx.host_inputs[name])
        ELSE ctx.device_inputs[name]]

CopyInputBuffersToDevice ==
    /\ pc = "copy_input_buffers_to_device"
    /\ queue = <<>>
    /\ context' = [context EXCEPT !.device_inputs = copy_input_buffers_to_device(context)]
    /\ Step("buffers_ready", main_after(pc))
    /\ UNCHANGED <<argv, env, parsed_options, queue, ri>>

-----------------------------------------------------------------------------
(* Argument marshaling *)

Pointer(kind, collection, name) == [kind |-> kind, collection |-> collection, name |-> name]
nullptr == Pointer("null", "", "")

\* sizeof, in bytes
sizeof(type) ==
    CASE type = "int" -> 4
      [] type = "double" -> 8
      [] type = "cl::Buffer" -> 8

\* (mutation) only output-only buffers are taken from the outputs collection
push_back_buffer_inout_from_inputs(argument_ptrs, ctx, dir, buffer_parameter_name) ==
    LET collection == IF dir = "output" THEN "outputs" ELSE "inputs"
    IN  IF ctx.ecosystem = "cuda"
        THEN [argument_ptrs EXCEPT
                !.pointers = Append(@, Pointer("buffer", collection, buffer_parameter_name))]
        ELSE [argument_ptrs EXCEPT
                !.pointers = Append(@, Pointer("buffer", collection, buffer_parameter_name)),
                !.sizes = Append(@, sizeof("cl::Buffer"))]

\* kernel_adapters::push_back_buffer
push_back_buffer(argument_ptrs, ctx, dir, buffer_parameter_name) ==
    LET collection == IF dir = "input" THEN "inputs" ELSE "outputs"
    IN  IF ctx.ecosystem = "cuda"
        THEN [argument_ptrs EXCEPT
                !.pointers = Append(@, Pointer("buffer", collection, buffer_parameter_name))]
        ELSE [argument_ptrs EXCEPT
                !.pointers = Append(@, Pointer("buffer", collection, buffer_parameter_name)),
                !.sizes = Append(@, sizeof("cl::Buffer"))]

\* (mutation) the size of a scalar is appended under CUDA instead of OpenCL
push_back_scalar_with_size_under_cuda(Scalar, argument_ptrs, ctx, scalar_parameter_name) ==
    IF ctx.ecosystem = "cuda"
    THEN [argument_ptrs EXCEPT
            !.pointers = Append(@, Pointer("scalar", "typed", scalar_parameter_name)),
            !.sizes = Append(@, sizeof(Scalar))]
    ELSE [argument_ptrs EXCEPT
            !.pointers = Append(@, Pointer("scalar", "typed", scalar_parameter_name))]

\* kernel_adapters::push_back_scalar<Scalar>
push_back_scalar(Scalar, argument_ptrs, ctx, scalar_parameter_name) ==
    IF ctx.ecosystem = "opencl"
    THEN [argument_ptrs EXCEPT
            !.pointers = Append(@, Pointer("scalar", "typed", scalar_parameter_name)),
            !.sizes = Append(@, sizeof(Scalar))]
    ELSE [argument_ptrs EXCEPT
            !.pointers = Append(@, Pointer("scalar", "typed", scalar_parameter_name))]

\* the map the buffer of a parameter is looked up in, by .at(name)
buffer_map(ctx, dir) == IF dir = "input" THEN ctx.device_inputs ELSE ctx.device_outputs

\* .at() throws std::out_of_range for a name that is not there
lookup_is_missing(ctx, p) ==
    IF p.kind = "buffer"
    THEN p.name \notin DOMAIN buffer_map(ctx, p.direction)
    ELSE p.name \notin DOMAIN ctx.scalar_typed

RECURSIVE marshal_from(_, _, _, _)
marshal_from(arguments, ctx, params, i) ==
    IF i > Len(params) THEN arguments
    ELSE marshal_from(
            IF params[i].kind = "buffer"
            THEN push_back_buffer(arguments, ctx, params[i].direction, params[i].name)
            ELSE push_back_scalar(scalar_type(params[i].name), arguments, ctx, params[i].name),
            ctx, params, i + 1)

\* a descriptor's marshal_kernel_arguments_inner: its parameters, in declaration order
marshal_kernel_arguments_inner(arguments, ctx) ==
    marshal_from(arguments, ctx, parameter_details(ctx.kernel_adapter_), 1)

\* (mutation) the terminating null is appended whatever the backend
marshal_kernel_arguments_always_terminated(ctx) ==
    LET inner == marshal_kernel_arguments_inner(
                    [marshalled |-> TRUE, pointers |-> <<>>, sizes |-> <<>>], ctx)
    IN  [inner EXCEPT !.pointers = Append(@, nullptr)]

\* kernel_adapter::marshal_kernel_arguments
marshal_kernel_arguments(ctx) ==
    LET inner == marshal_kernel_arguments_inner(
                    [marshalled |-> TRUE, pointers |-> <<>>, sizes |-> <<>>], ctx)
    IN  IF ctx.ecosystem = "cuda"
        THEN [inner EXCEPT !.pointers = Append(@, nullptr)]
        ELSE inner

\* finalize_kernel_arguments
FinalizeKernelArguments ==
    /\ pc = "finalize_kernel_arguments"
    /\ IF \E p \in Range(parameter_details(context.kernel_adapter_)) :
                lookup_is_missing(context, p)
       THEN Throw("throw_out_of_range") /\ UNCHANGED context
       ELSE /\ context' = [context EXCEPT
                    !.finalized_arguments = marshal_kernel_arguments(context)]
            /\ Step("arguments_marshaled", main_after(pc))
    /\ UNCHANGED <<argv, env, parsed_options, queue, ri>>

-----------------------------------------------------------------------------
(* Launch configuration *)

IsSet(optional) == Len(optional) > 0

\* optional_launch_config_components::is_sufficient
is_sufficient(c) ==
    /\ IsSet(c.block_dimensions)
    /\ IsSet(c.grid_dimensions) \/ IsSet(c.overall_grid_dimensions)

\* the number of blocks of b threads needed to cover o threads
div_rounding_up(o, b) == (o + b - 1) \div b

\* optional_launch_config_components::deduce_missing
deduce_missing(c) ==
    IF IsSet(c.block_dimensions) /\ IsSet(c.grid_dimensions)
    THEN [c EXCEPT !.overall_grid_dimensions =
            [i \in 1..3 |-> c.grid_dimensions[i] * c.block_dimensions[i]]]
    ELSE IF IsSet(c.block_dimensions) /\ IsSet(c.overall_grid_dimensions)
    THEN [c EXCEPT !.grid_dimensions =
            [i \in 1..3 |-> div_rounding_up(c.overall_grid_dimensions[i], c.block_dimensions[i])]]
    ELSE c

\* optional_launch_config_components::full_blocks
full_blocks(c) ==
    \A i \in 1..3 : c.grid_dimensions[i] * c.block_dimensions[i] = c.overall_grid_dimensions[i]

\* kernel_adapter::deduce_launch_config: [thrown, components]
deduce_launch_config(ctx) ==
    LET forced == ctx.options.forced_launch_config_components
        components == IF IsSet(forced.dynamic_shared_memory_size) THEN forced
                      ELSE [forced EXCEPT !.dynamic_shared_memory_size = <<0>>]
    IN  IF is_sufficient(components)
        THEN [thrown |-> FALSE, components |-> components]
        ELSE [thrown |-> TRUE, components |-> components]

\* kernel_adapter::make_launch_config
make_launch_config(ctx) ==
    LET forced == ctx.options.forced_launch_config_components
    IN  IF is_sufficient(forced)
        THEN [thrown |-> FALSE, components |-> forced]
        ELSE deduce_launch_config(ctx)

\* (mutation) the components are used as make_launch_config returned them
configure_launch_without_deduce_missing(ctx) ==
    [configured |-> TRUE,
     components |-> make_launch_config(ctx).components,
     full_blocks |-> FALSE]

\* configure_launch: the components after deduce_missing(), and full_blocks()
configure_launch(ctx) ==
    LET lc_components == deduce_missing(make_launch_config(ctx).components)
    IN  [configured |-> TRUE,
         components |-> lc_components,
         full_blocks |-> full_blocks(lc_components)]

\* (mutation) without a complete launch configuration main() goes on all the same
ConfigureLaunchGoingOnWithoutConfiguration ==
    /\ pc = "configure_launch"
    /\ IF make_launch_config(context).thrown
       THEN Step("launch_not_configured", main_after(pc)) /\ UNCHANGED context
       ELSE /\ context' = [context EXCEPT !.launch = configure_launch(context)]
            /\ Step("launch_configured", main_after(pc))
    /\ UNCHANGED <<argv, env, parsed_options, queue, ri>>

ConfigureLaunch ==
    /\ pc = "configure_launch"
    /\ IF make_launch_config(context).thrown
       THEN Throw("throw_unable_to_deduce_launch_configuration") /\ UNCHANGED context
       ELSE /\ context' = [context EXCEPT !.launch = configure_launch(context)]
            /\ Step("launch_configured", main_after(pc))
    /\ UNCHANGED <<argv, env, parsed_options, queue, ri>>

-----------------------------------------------------------------------------
(* The compute device.  A CUDA copy or memset returns when it is done; an  *)
(* OpenCL enqueue without the blocking flag only appends to the in-order   *)
(* command queue, as does a kernel launch under either backend.            *)

Command(op, run, name) == [op |-> op, run |-> run, name |-> name]

\* copy_buffer_on_device, once it takes effect: origin's bytes into destination
copy_buffer_on_device(destination, origin) ==
    IF destination.size = origin.size
    THEN [destination EXCEPT !.content = origin.content]
    ELSE [destination EXCEPT !.content = Partial]

\* zero_output_buffer, once it takes effect
zero_output_buffer(buffer) == [buffer EXCEPT !.content = Zeros]

\* the buffer a marshaled pointer refers to
Deref(ctx, ptr) ==
    IF ptr.collection = "inputs" THEN ctx.device_inputs[ptr.name]
    ELSE ctx.device_outputs[ptr.name]

\* the positions of the buffer parameters the kernel reads, and of those it writes
BufferPositions(ctx) ==
    {i \in 1..Len(parameter_details(ctx.kernel_adapter_)) :
        parameter_details(ctx.kernel_adapter_)[i].kind = "buffer"}
WrittenPositions(ctx) ==
    {i \in BufferPositions(ctx) :
        parameter_details(ctx.kernel_adapter_)[i].direction \in {"output", "inout"}}

\* what one execution of the kernel sees through each buffer argument
KernelSees(ctx) ==
    [name \in {parameter_details(ctx.kernel_adapter_)[i].name : i \in BufferPositions(ctx)} |->
        LET i == CHOOSE j \in BufferPositions(ctx) :
                    parameter_details(ctx.kernel_adapter_)[j].name = name
        IN  Deref(ctx, ctx.finalized_arguments.pointers[i]).content]

\* a device-side collection after the kernel wrote through its output arguments
AfterKernel(ctx, collection, buffers, run) ==
    [name \in DOMAIN buffers |->
        IF \E i \in WrittenPositions(ctx) :
              /\ ctx.finalized_arguments.pointers[i].collection = collection
              /\ ctx.finalized_arguments.pointers[i].name = name
        THEN [buffers[name] EXCEPT !.content = KernelOutput(name, run)]
        ELSE buffers[name]]

\* the execution context after the device has executed one command
Executed(ctx, cmd) ==
    CASE cmd.op = "fill" ->
            [ctx EXCEPT !.device_outputs[cmd.name] = zero_output_buffer(@)]
      [] cmd.op = "copy" ->
            [ctx EXCEPT !.device_outputs[cmd.name] =
                copy_buffer_on_device(@, ctx.device_inputs[cmd.name])]
      [] cmd.op = "kernel" ->
            [ctx EXCEPT
                !.device_inputs = AfterKernel(ctx, "inputs", ctx.device_inputs, cmd.run),
                !.device_outputs = AfterKernel(ctx, "outputs", ctx.device_outputs, cmd.run)]

RECURSIVE ExecutedAll(_, _)
ExecutedAll(ctx, cmds) ==
    IF cmds = <<>> THEN ctx ELSE ExecutedAll(Executed(ctx, Head(cmds)), Tail(cmds))

DoneEvent(ctx, cmd) ==
    IF cmd.op = "kernel"
    THEN [ev |-> "kernel_done", run |-> cmd.run, seen |-> KernelSees(ctx)]
    ELSE RunEvent(cmd.op \o "_done", cmd.run)

\* the device takes the oldest command of its in-order queue and executes it
DeviceExecute ==
    /\ queue # <<>>
    /\ context' = Executed(context, Head(queue))
    /\ queue' = Tail(queue)
    /\ log' = Append(log, DoneEvent(context, Head(queue)))
    /\ UNCHANGED <<argv, env, pc, status, parsed_options, ri>>

-----------------------------------------------------------------------------
(* The runs: main()'s loop and perform_single_run *)

\* (mutation) the loop runs while ri <= num_runs
RunLoopOnceTooOften ==
    /\ pc = "run_loop"
    /\ IF ri <= context.options.num_runs
       THEN /\ pc' = "zero_output_buffers"
            /\ log' = Append(log, RunEvent("run_begin", ri))
       ELSE /\ pc' = IF context.options.write_output_buffers_to_files
                     THEN "copy_outputs_from_device" ELSE "free_resources"
            /\ log' = Append(log, Event("runs_over"))
    /\ UNCHANGED <<argv, env, status, parsed_options, context, queue, ri>>

RunLoop ==
    /\ pc = "run_loop"
    /\ IF ri < context.options.num_runs
       THEN /\ pc' = "zero_output_buffers"
            /\ log' = Append(log, RunEvent("run_begin", ri))
       ELSE /\ pc' = IF context.options.write_output_buffers_to_files
                     THEN "copy_outputs_from_device" ELSE "free_resources"
            /\ log' = Append(log, Event("runs_over"))
    /\ UNCHANGED <<argv, env, status, parsed_options, context, queue, ri>>

\* (mutation) the output-only buffers are zeroed whether or not it was asked for
zero_output_buffers_unconditionally(ctx, run) ==
    [i \in 1..Len(InOrder(buffer_names(ctx.kernel_adapter_, "output"))) |->
        Command("fill", run, InOrder(buffer_names(ctx.kernel_adapter_, "output"))[i])]

\* the commands zero_output_buffers issues, in order
zero_output_buffers(ctx, run) ==
    IF ctx.options.zero_output_buffers
    THEN [i \in 1..Len(InOrder(buffer_names(ctx.kernel_adapter_, "output"))) |->
            Command("fill", run, InOrder(buffer_names(ctx.kernel_adapter_, "output"))[i])]
    ELSE <<>>

\* (mutation) the working copies are set up once, before the first run only
reset_working_copy_before_first_run_only(ctx, run) ==
    IF run = 0
    THEN [i \in 1..Len(InOrder(buffer_names(ctx.kernel_adapter_, "inout"))) |->
            Command("copy", run, InOrder(buffer_names(ctx.kernel_adapter_, "inout"))[i])]
    ELSE <<>>

\* the commands reset_working_copy_of_inout_buffers issues, in order
reset_working_copy_of_inout_buffers(ctx, run) ==
    [i \in 1..Len(InOrder(buffer_names(ctx.kernel_adapter_, "inout"))) |->
        Command("copy", run, InOrder(buffer_names(ctx.kernel_adapter_, "inout"))[i])]

\* issue commands: done on return under CUDA, only enqueued under OpenCL;
\* `then` are the calls made after them, before the function returns
Issue(cmds, then, name, next) ==
    /\ IF context.ecosystem = "cuda"
       THEN /\ queue = <<>>
            /\ context' = ExecutedAll(context, cmds)
            /\ queue' = queue
            /\ log' = log \o [i \in 1..Len(cmds) |-> RunEvent(cmds[i].op \o "_issued", ri)]
                          \o [i \in 1..Len(cmds) |-> RunEvent(cmds[i].op \o "_done", ri)]
                          \o then \o <<RunEvent(name, ri)>>
       ELSE /\ context' = context
            /\ queue' = queue \o cmds
            /\ log' = log \o [i \in 1..Len(cmds) |-> RunEvent(cmds[i].op \o "_issued", ri)]
                          \o then \o <<RunEvent(name, ri)>>
    /\ pc' = next

ZeroOutputBuffers ==
    /\ pc = "zero_output_buffers"
    /\ Issue(zero_output_buffers(context, ri), <<>>, "zero_output_buffers_returned",
             perform_single_run_after(pc))
    /\ UNCHANGED <<argv, env, status, parsed_options, ri>>

\* the device reset_working_copy_of_inout_buffers and copy_outputs_from_device
\* synchronize: cuda::device::get(context.cuda.driver_device_id)
synchronized_device(ctx) == "cuda"

\* returns at once without inout buffers; otherwise ends with a synchronization
\* of the CUDA device, whichever backend is active
ResetWorkingCopyOfInoutBuffers ==
    /\ pc = "reset_working_copy_of_inout_buffers"
    /\ Issue(reset_working_copy_of_inout_buffers(context, ri),
             IF buffer_names(context.kernel_adapter_, "inout") = {} THEN <<>>
             ELSE <<SyncEvent("reset_working_copy_of_inout_buffers",
                              synchronized_device(context), ri)>>,
             "reset_returned", perform_single_run_after(pc))
    /\ UNCHANGED <<argv, env, status, parsed_options, ri>>

\* launch_time_and_sync_cuda_kernel, launch_time_and_sync_opencl_kernel: the launch
LaunchKernel ==
    /\ pc = "launch_kernel"
    /\ queue' = Append(queue, Command("kernel", ri, ""))
    /\ pc' = perform_single_run_after(pc)
    /\ log' = Append(log, RunEvent("kernel_launched", ri))
    /\ UNCHANGED <<argv, env, status, parsed_options, context, ri>>

\* ... and the wait for the kernel, after which perform_single_run returns
SyncKernel ==
    /\ pc = "sync_kernel"
    /\ queue = <<>>
    /\ pc' = perform_single_run_after(pc)
    /\ ri' = ri + 1
    /\ log' = Append(log, RunEvent("run_complete", ri))
    /\ UNCHANGED <<argv, env, status, parsed_options, context, queue>>

-----------------------------------------------------------------------------
(* Results and the end of main() *)

\* copy_buffer_to_host: a blocking copy of host_side_buffer.size() bytes
copy_buffer_to_host(device_side_buffer, host_side_buffer) ==
    IF host_side_buffer.size = device_side_buffer.size
    THEN [host_side_buffer EXCEPT !.content = device_side_buffer.content]
    ELSE [host_side_buffer EXCEPT !.content = Partial]

copy_outputs_from_device(ctx) ==
    [name \in DOMAIN ctx.host_outputs |->
        copy_buffer_to_host(ctx.device_outputs[name], ctx.host_outputs[name])]

CopyOutputsFromDevice ==
    /\ pc = "copy_outputs_from_device"
    /\ queue = <<>>
    /\ context' = [context EXCEPT !.host_outputs = copy_outputs_from_device(context)]
    /\ pc' = main_after(pc)
    /\ status' = status
    /\ log' = log \o <<Event("outputs_copied_to_host"),
                        SyncEvent("copy_outputs_from_device", synchronized_device(context), -1)>>
    /\ UNCHANGED <<argv, env, parsed_options, queue, ri>>

\* the file write_buffers_to_files writes a host-side output buffer to
write_destination(ctx, buffer_name) ==
    Normal(maybe_prepend_base_dir(ctx.options.output_buffer_base_path,
                                  ctx.filenames.outputs[buffer_name]))

\* write_buffers_to_files: each host-side output buffer goes to its file,
\* which is created or written over
WriteBuffersToFiles ==
    /\ pc = "write_buffers_to_files"
    /\ env' = [env EXCEPT !.written_files =
            @ \cup {write_destination(context, n) : n \in DOMAIN context.host_outputs}]
    /\ Step("output_files_written", main_after(pc))
    /\ UNCHANGED <<argv, parsed_options, context, queue, ri>>

\* free_resources: cuModuleUnload and cuCtxDestroy under CUDA, nothing under
\* OpenCL; the memory allocated in a CUDA context goes with the context
free_resources(ctx, e) ==
    IF ctx.ecosystem = "cuda"
    THEN <<Resource("module", ""), Resource("context", "")>>
            \o (IF e.cuda_context_owns_buffers THEN device_buffer_resources(ctx) ELSE <<>>)
    ELSE <<>>

\* free_resources, and main() returning
FreeResources ==
    /\ pc = "free_resources"
    /\ context' = [context EXCEPT !.released =
            @ \o free_resources(context, env) \o destroy_execution_context(context)]
    /\ pc' = "exited"
    /\ status' = "exit_success"
    /\ log' = Append(log, Event("finalized"))
    /\ UNCHANGED <<argv, env, parsed_options, queue, ri>>

Next ==
    \/ ParseCommandLineInitially
    \/ InitializeExecutionContext
    \/ ParseCommandLineForKernel
    \/ BuildKernel
    \/ AfterBuild
    \/ ReadBuffersFromFiles
    \/ VerifyInputArguments
    \/ CreateHostSideOutputBuffers
    \/ CreateDeviceSideBuffers
    \/ GenerateAdditionalScalarArguments
    \/ CopyInputBuffersToDevice
    \/ FinalizeKernelArguments
    \/ ConfigureLaunch
    \/ RunLoop
    \/ ZeroOutputBuffers
    \/ ResetWorkingCopyOfInoutBuffers
    \/ LaunchKernel
    \/ SyncKernel
    \/ DeviceExecute
    \/ CopyOutputsFromDevice
    \/ WriteBuffersToFiles
    \/ FreeResources

Spec == Init /\ [][Next]_vars

-----------------------------------------------------------------------------
(* Properties *)

LogIndices == 1..Len(log)
Happened(name) == \E i \in LogIndices : log[i].ev = name
InoutNames == buffer_names(context.kernel_adapter_, "inout")

\* C1: for every inout buffer and every run, what the kernel of that run finds
\* in the working copy is what the pristine copy received at copy-in (the bytes
\* of the input file), and after copy-in the pristine copy keeps holding them.
C1_WorkingCopyIsPristineAtEveryRun ==
    /\ \A i \in LogIndices :
          log[i].ev = "kernel_done" =>
             \A name \in InoutNames : log[i].seen[name] = env.files[name].content
    /\ Happened("buffers_ready") =>
          \A name \in InoutNames :
             context.device_inputs[name].content = env.files[name].content

\* a second run of a kernel with an inout buffer has executed under OpenCL
C1_Witness ==
    /\ context.ecosystem = "opencl"
    /\ InoutNames # {}
    /\ \E i \in LogIndices : log[i].ev = "kernel_done" /\ log[i].run = 1

Resolved == context.launch.components
AllThreeSet ==
    /\ IsSet(Resolved.block_dimensions)
    /\ IsSet(Resolved.grid_dimensions)
    /\ IsSet(Resolved.overall_grid_dimensions)

\* C2 as stated: the resolved geometry has overall[i] = grid[i] * block[i] on
\* every axis, whatever accepted combination of components was forced.
C2_OverallIsGridTimesBlock ==
    context.launch.configured =>
        /\ AllThreeSet
        /\ \A i \in 1..3 :
              Resolved.overall_grid_dimensions[i] =
                 Resolved.grid_dimensions[i] * Resolved.block_dimensions[i]

\* C2 as amended: the grid covers the overall dimensions with the fewest blocks,
\* (grid[i] - 1) * block[i] < overall[i] <= grid[i] * block[i] on every axis, and
\* overall[i] = grid[i] * block[i] when block and grid are the forced pair.
C2_GridCoversOverall ==
    context.launch.configured =>
        /\ AllThreeSet
        /\ \A i \in 1..3 :
              /\ Resolved.overall_grid_dimensions[i] <=
                    Resolved.grid_dimensions[i] * Resolved.block_dimensions[i]
              /\ (Resolved.grid_dimensions[i] - 1) * Resolved.block_dimensions[i] <
                    Resolved.overall_grid_dimensions[i]
        /\ Len(argv.grid) > 0 =>
              \A i \in 1..3 :
                 Resolved.overall_grid_dimensions[i] =
                    Resolved.grid_dimensions[i] * Resolved.block_dimensions[i]

\* a launch was configured from forced block and overall dimensions that do not
\* divide evenly on the second axis
C2_Witness ==
    /\ context.launch.configured
    /\ Len(argv.overall) > 1
    /\ AllThreeSet
    /\ Resolved.overall_grid_dimensions[2] <
          Resolved.grid_dimensions[2] * Resolved.block_dimensions[2]

\* C3: with block and overall dimensions forced (and no grid dimensions), every
\* grid[i] is the least number of blocks covering overall[i], full_blocks is
\* true exactly when grid[i] * block[i] = overall[i] on all three axes, and
\* block (256,1,1) with overall (1000,1,1) gives grid (4,1,1), not full blocks.
C3_GridIsCeilingAndFullBlocksExact ==
    (context.launch.configured /\ Len(argv.block) > 0 /\ Len(argv.overall) > 0
        /\ Len(argv.grid) = 0) =>
        /\ AllThreeSet
        /\ Resolved.block_dimensions = pad_dimensions(argv.block)
        /\ Resolved.overall_grid_dimensions = pad_dimensions(argv.overall)
        /\ \A i \in 1..3 :
              /\ Resolved.grid_dimensions[i] * Resolved.block_dimensions[i] >=
                    Resolved.overall_grid_dimensions[i]
              /\ \A g \in 1..(Resolved.grid_dimensions[i] - 1) :
                    g * Resolved.block_dimensions[i] < Resolved.overall_grid_dimensions[i]
        /\ context.launch.full_blocks <=>
              \A i \in 1..3 :
                 Resolved.grid_dimensions[i] * Resolved.block_dimensions[i] =
                    Resolved.overall_grid_dimensions[i]
        /\ (argv.block = <<256>> /\ argv.overall = <<1000>>) =>
              /\ Resolved.grid_dimensions = <<4, 1, 1>>
              /\ ~context.launch.full_blocks

\* the launch of block (256,1,1) and overall (1000,1,1) has been configured
C3_Witness ==
    /\ context.launch.configured
    /\ argv.block = <<256>> /\ argv.overall = <<1000>> /\ argv.grid = <<>>
    /\ Resolved.grid_dimensions = <<4, 1, 1>>

\* C4: a command line that gives both grid dimensions and overall grid
\* dimensions ends in a fatal exit of the first parse, whatever their values:
\* no execution context, compilation, buffer or device command ever exists.
C4_GridAndOverallRejected ==
    (Len(argv.grid) > 0 /\ Len(argv.overall) > 0) =>
        /\ pc \in {"parse_command_line_initially", "exited"}
        /\ pc = "exited" => status = "exit_failure"
        /\ ~context.created /\ ~context.built
        /\ context.host_inputs = EmptyMap /\ context.host_outputs = EmptyMap
        /\ context.device_inputs = EmptyMap /\ context.device_outputs = EmptyMap
        /\ queue = <<>>
        /\ \A i \in LogIndices : log[i].ev = "die_grid_and_overall"

\* the process has died of grid (1) and overall (2) that agree with block (2)
C4_Witness ==
    /\ argv.block = <<2>> /\ argv.grid = <<1>> /\ argv.overall = <<2>>
    /\ status = "exit_failure"
    /\ Happened("die_grid_and_overall")

Params == parameter_details(context.kernel_adapter_)
Marshaled == context.finalized_arguments.pointers

\* C5: the marshaled list has one entry per parameter of the descriptor, in
\* declaration order, and then a null entry under CUDA and nothing under OpenCL.
C5_MarshaledInDeclarationOrder ==
    context.finalized_arguments.marshalled =>
        /\ Len(Marshaled) = Len(Params) + (IF context.ecosystem = "cuda" THEN 1 ELSE 0)
        /\ \A i \in 1..Len(Params) :
              /\ Marshaled[i].name = Params[i].name
              /\ Marshaled[i].kind = Params[i].kind
        /\ context.ecosystem = "cuda" => Marshaled[Len(Params) + 1] = nullptr
        /\ context.ecosystem = "opencl" =>
              \A i \in 1..Len(Marshaled) : Marshaled[i] # nullptr

\* the four parameters of "mixed" have been marshaled under OpenCL
C5_Witness ==
    /\ context.finalized_arguments.marshalled
    /\ context.ecosystem = "opencl"
    /\ context.kernel_adapter_ = "mixed"
    /\ Len(Marshaled) = 4

\* C6: a marshaled buffer parameter refers to the buffer of its own name in
\* the outputs collection if its direction is out or inout and in the inputs
\* collection if it is in; the kernel is never handed a pristine copy to write.
C6_BufferTakenFromItsCollection ==
    context.finalized_arguments.marshalled =>
        /\ Len(Marshaled) >= Len(Params)
        /\ \A i \in 1..Len(Params) :
              Params[i].kind = "buffer" =>
                 /\ Marshaled[i].name = Params[i].name
                 /\ Params[i].direction \in {"output", "inout"} =>
                       Marshaled[i].collection = "outputs"
                 /\ Params[i].direction = "input" => Marshaled[i].collection = "inputs"

\* an inout parameter has been marshaled and the kernel has run with it
C6_Witness ==
    /\ context.finalized_arguments.marshalled
    /\ InoutNames # {}
    /\ Happened("kernel_done")

OutputParams ==
    {p \in Range(Params) : p.kind = "buffer" /\ p.direction \in {"output", "inout"}}

\* C7: every output and inout parameter gets a host output buffer of exactly
\* the size its size calculator returns (the size of the input file the
\* calculator names), and a device buffer of that same size; an output B sized
\* as a 16-byte input A has 16 bytes.
C7_OutputBuffersHaveTheComputedSize ==
    /\ Happened("host_output_buffers_created") =>
          \A p \in OutputParams :
             /\ p.name \in DOMAIN context.host_outputs
             /\ context.host_outputs[p.name].size = env.files[p.size_of].size
    /\ Happened("device_buffers_created") =>
          \A p \in OutputParams :
             /\ p.name \in DOMAIN context.device_outputs
             /\ context.device_outputs[p.name].size = env.files[p.size_of].size
    /\ (Happened("device_buffers_created") /\ context.kernel_adapter_ = "vadd"
          /\ env.files["A"].size = 16) =>
             /\ context.host_outputs["B"].size = 16
             /\ context.device_outputs["B"].size = 16

\* B of "vadd" has been allocated on the device for an input A of 16 bytes
C7_Witness ==
    /\ Happened("device_buffers_created")
    /\ context.kernel_adapter_ = "vadd"
    /\ env.files["A"].size = 16
    /\ context.device_outputs["B"].size = 16

\* C8: from the creation of the device buffers on, the inputs collection holds
\* exactly the in and inout names and the outputs collection exactly the out
\* and inout names: an inout name has its two entries, the others one.
C8_InoutNamesHaveTwoDeviceBuffers ==
    Happened("device_buffers_created") =>
        /\ \A p \in {q \in Range(Params) : q.kind = "buffer"} :
              /\ p.name \in DOMAIN context.device_inputs <=>
                    p.direction \in {"input", "inout"}
              /\ p.name \in DOMAIN context.device_outputs <=>
                    p.direction \in {"output", "inout"}
        /\ (DOMAIN context.device_inputs \cup DOMAIN context.device_outputs) \subseteq
              {q.name : q \in {r \in Range(Params) : r.kind = "buffer"}}

\* a run of "mixed" (in A, inout X, out B) has ended normally
C8_Witness ==
    /\ Happened("device_buffers_created")
    /\ context.kernel_adapter_ = "mixed"
    /\ status = "exit_success"
    /\ "X" \in DOMAIN context.device_inputs \cap DOMAIN context.device_outputs

\* the orchestration steps of the execution context, in the order they must take
StateOrder ==
    << "backend_selected", "device_bound", "descriptor_bound", "source_compiled",
       "buffers_ready", "arguments_marshaled", "launch_configured", "run_complete",
       "finalized" >>
StateRank(name) == CHOOSE r \in 1..Len(StateOrder) : StateOrder[r] = name
StatesEntered == SelectSeq(log, LAMBDA e : e.ev \in Range(StateOrder))

\* C9: the states are entered in the fixed order, each right after its
\* predecessor, the runs one after another from run 0 on, and finalization
\* after the last of the N runs; none is entered twice.
C9_StatesEnteredInOrder ==
    LET entered == StatesEntered
    IN  /\ Len(entered) > 0 => entered[1].ev = "backend_selected"
        /\ \A k \in 2..Len(entered) :
              LET prev == entered[k - 1]
                  this == entered[k]
              IN  IF this.ev = "run_complete"
                  THEN \/ prev.ev = "launch_configured" /\ this.run = 0
                       \/ prev.ev = "run_complete" /\ this.run = prev.run + 1
                  ELSE /\ StateRank(this.ev) = StateRank(prev.ev) + 1
                       /\ this.ev = "finalized" =>
                             prev.run = context.options.num_runs - 1

\* all the states have been entered, with two runs
C9_Witness ==
    /\ Len(StatesEntered) = 10
    /\ StatesEntered[10].ev = "finalized"

EventsOfRuns == SelectSeq(log, LAMBDA e : e.run >= 0)
RunEvents(name, run) == {i \in LogIndices : log[i].ev = name /\ log[i].run = run}

\* C10: the kernel is launched once per run and never more than N times; the
\* events of the runs do not interleave, a run begins with nothing of the
\* previous run left for the device to do, read-back comes after the kernel
\* of run N-1 is done, and a normal end has seen exactly N launches.
C10_RunsAreSequential ==
    /\ \A k \in 0..ri : Cardinality(RunEvents("kernel_launched", k)) <= 1
    /\ \A i \in LogIndices : log[i].run < context.options.num_runs
    /\ LET of_runs == EventsOfRuns
       IN  \A k \in 2..Len(of_runs) : of_runs[k - 1].run <= of_runs[k].run
    /\ \A c \in Range(queue) : c.run = ri
    /\ pc \in {"run_loop", "zero_output_buffers", "copy_outputs_from_device"} =>
          /\ queue = <<>>
          /\ \A k \in 0..(ri - 1) :
                /\ Cardinality(RunEvents("kernel_done", k)) = 1
                /\ Cardinality(RunEvents("copy_done", k)) =
                      Cardinality(RunEvents("copy_issued", k))
                /\ Cardinality(RunEvents("fill_done", k)) =
                      Cardinality(RunEvents("fill_issued", k))
    /\ \A i \in LogIndices :
          log[i].ev = "outputs_copied_to_host" =>
             \E j \in 1..(i - 1) :
                log[j].ev = "kernel_done" /\ log[j].run = context.options.num_runs - 1
    /\ Happened("finalized") =>
          \A k \in 0..(context.options.num_runs - 1) :
             Cardinality(RunEvents("kernel_launched", k)) = 1

\* two runs of a kernel with an inout buffer under OpenCL, then read-back
C10_Witness ==
    /\ context.ecosystem = "opencl"
    /\ context.options.num_runs = 2
    /\ InoutNames # {}
    /\ Cardinality(RunEvents("kernel_done", 1)) = 1
    /\ Happened("outputs_copied_to_host")
    /\ status = "exit_success"

-----------------------------------------------------------------------------
(* Failures *)

\* nothing of the execution context exists: no backend context, no compiled
\* kernel, no host or device buffer, no command handed to the device
NothingCreated ==
    /\ ~context.created /\ ~context.built
    /\ context.host_inputs = EmptyMap /\ context.host_outputs = EmptyMap
    /\ context.device_inputs = EmptyMap /\ context.device_outputs = EmptyMap
    /\ queue = <<>>

\* C11: with a kernel key no adapter is registered for, the process never gets
\* past the first parse: it ends there with a nonzero exit code, and no device
\* context, compiled kernel or host or device buffer ever exists.
C11_UnknownKeyIsFatalBeforeAnyWork ==
    argv.key \notin RegisteredKeys =>
        /\ pc \in {"parse_command_line_initially", "exited"}
        /\ pc = "exited" => status = "exit_failure"
        /\ NothingCreated
        /\ ~Happened("input_buffers_read")

\* the process has died of the key "foo", all else on the command line being fine
C11_Witness ==
    /\ argv.key = "foo"
    /\ status = "exit_failure"
    /\ Happened("die_unknown_key")

\* no buffer has been touched and nothing has run: no input file read, no host
\* or device buffer allocated, no copy or fill issued, no kernel launched
NoBufferTouched ==
    /\ context.host_inputs = EmptyMap /\ context.host_outputs = EmptyMap
    /\ context.device_inputs = EmptyMap /\ context.device_outputs = EmptyMap
    /\ queue = <<>>
    /\ \A i \in LogIndices :
          log[i].ev \notin {"input_buffers_read", "host_output_buffers_created",
                            "device_buffers_created", "buffers_ready",
                            "copy_issued", "fill_issued", "kernel_launched",
                            "outputs_copied_to_host", "output_files_written"}

\* C12: when the compilation of the kernel source fails, the process ends in
\* build_kernel with a failure, and no buffer has been or will be touched.
C12_CompilationFailureTouchesNoBuffer ==
    /\ ~env.compile_ok => NoBufferTouched /\ ~context.built
    /\ Happened("die_compilation_failed") =>
          /\ pc = "exited" /\ status = "exit_failure"
          /\ log[Len(log)].ev = "die_compilation_failed"

\* a compilation has failed in an execution context that was created, with
\* the input files in place and all required arguments given
C12_Witness ==
    /\ Happened("die_compilation_failed")
    /\ context.created
    /\ "n" \in DOMAIN context.scalar_raw
    /\ status = "exit_failure"

\* the ways validation ends the process
ValidationFailures ==
    {"exit_scalar_not_specified", "exit_definitions_not_specified",
     "throw_no_such_input_file", "exit_missing_buffers", "exit_missing_scalar",
     "exit_input_sizes_invalid", "exit_combination_invalid"}

\* the file an input or inout buffer is read from
InputFileOf(n) == IF n \in DOMAIN argv.filenames THEN argv.filenames[n] ELSE n

\* what is given cannot be run: an input or inout buffer has no file, a
\* required scalar is not given, or the descriptor rejects the sizes or the
\* combination of inputs and definitions
InputsAreInvalid ==
    LET key == argv.key
        names == buffer_names2(key, "input", "inout")
    IN  \/ \E n \in names : InputFileOf(n) \notin DOMAIN env.files
        \/ \E r \in cmdline_required_scalar_argument_names(key) : r \notin DOMAIN argv.scalars
        \/ /\ key = "mixed"
           /\ {InputFileOf("A"), InputFileOf("X")} \subseteq DOMAIN env.files
           /\ env.files[InputFileOf("X")].size > env.files[InputFileOf("A")].size
        \/ /\ key = "scale"
           /\ "n" \in DOMAIN argv.scalars /\ argv.scalars["n"] = "7"
           /\ \E i \in 1..Len(argv.defines) :
                 Len(argv.defines[i]) > 1 /\ argv.defines[i][1] = "T" /\ argv.defines[i][2] = "="

NoPartialExecution ==
    /\ context.device_inputs = EmptyMap /\ context.device_outputs = EmptyMap
    /\ ~context.finalized_arguments.marshalled
    /\ queue = <<>>
    /\ \A i \in LogIndices :
          log[i].ev \notin {"device_buffers_created", "buffers_ready", "arguments_marshaled",
                            "copy_issued", "fill_issued", "kernel_launched", "kernel_done"}

\* C13: when validation fails the process has ended with a nonzero code, and
\* with inputs that cannot be validated no device buffer is ever allocated, no
\* argument marshaled and no kernel run; unless only compilation was asked
\* for, the process does not end in success.
C13_ValidationFailureLeavesNothingDone ==
    /\ (\E i \in LogIndices : log[i].ev \in ValidationFailures) =>
          /\ pc = "exited"
          /\ status \in {"exit_failure", "aborted"}
          /\ log[Len(log)].ev \in ValidationFailures
          /\ NoPartialExecution
    /\ InputsAreInvalid =>
          /\ NoPartialExecution
          /\ (pc = "exited" /\ ~argv.compile_only) => status # "exit_success"

\* the descriptor has rejected the combination of a scalar and a definition,
\* after the kernel was built and the input buffers were read
C13_Witness ==
    /\ Happened("exit_combination_invalid")
    /\ context.built
    /\ context.host_inputs # EmptyMap
    /\ status = "exit_failure"

-----------------------------------------------------------------------------
(* Devices and backends *)

SelectedPlatform == IF Len(argv.platform) > 0 THEN argv.platform[1] ELSE 0

\* the number of devices of the backend the command line selects: the CUDA
\* devices, or the GPU devices of the selected OpenCL platform
SelectedDeviceCount ==
    IF gpu_ecosystem(argv) = "opencl"
    THEN IF SelectedPlatform < Len(env.opencl_platforms)
         THEN env.opencl_platforms[SelectedPlatform + 1] ELSE 0
    ELSE env.cuda_devices

\* C14 as stated: a device index outside [0, count) of the selected backend
\* (and so any index when the count is zero) ends the process with a failure
\* before an execution context, a compiled kernel or a buffer exists, and an
\* index inside that range is not rejected as an invalid device index.
C14_DeviceIndexCheckedAgainstSelectedBackend ==
    initial_parse_failure(argv) = "" =>
        /\ argv.device \notin 0..(SelectedDeviceCount - 1) =>
              /\ NothingCreated
              /\ pc = "exited" => status = "exit_failure"
        /\ argv.device \in 0..(SelectedDeviceCount - 1) => ~Happened("die_invalid_device")

\* an execution context exists for an OpenCL device index that the selected
\* platform does not have
C14_Witness ==
    /\ context.created
    /\ context.ecosystem = "opencl"
    /\ argv.device >= SelectedDeviceCount

BackendChosen == Happened("backend_selected")
BackendRefused == pc = "exited" /\ status = "exit_failure" /\ Happened("die_backend_selection")
PastBackendSelection == pc # "parse_command_line_initially"

\* C15: once the first parse is over, a command line without backend flags
\* runs on CUDA, one that forces both backends has died, one that forces only
\* OpenCL runs on OpenCL, and one that disables CUDA without enabling OpenCL has
\* died; whatever proceeds has exactly one backend, which the context takes over.
C15_ExactlyOneBackendOrFatal ==
    /\ PastBackendSelection =>
          /\ (argv.cuda = "unset" /\ argv.opencl = "unset" /\ BackendChosen) =>
                parsed_options.gpu_ecosystem = "cuda"
          /\ (argv.cuda = "true" /\ argv.opencl = "true") => BackendRefused
          /\ (argv.cuda = "unset" /\ argv.opencl = "true" /\ BackendChosen) =>
                parsed_options.gpu_ecosystem = "opencl"
          /\ (argv.cuda = "false" /\ argv.opencl # "true") => BackendRefused
          /\ (argv.cuda = "false" /\ argv.opencl = "true" /\ BackendChosen) =>
                parsed_options.gpu_ecosystem = "opencl"
          /\ (argv.cuda # "false" /\ argv.opencl = "false" /\ BackendChosen) =>
                parsed_options.gpu_ecosystem = "cuda"
          /\ (argv.cuda = "unset" /\ argv.opencl = "unset") =>
                ~Happened("die_backend_selection")
          /\ (argv.cuda = "unset" /\ argv.opencl = "true") =>
                ~Happened("die_backend_selection")
    /\ BackendChosen =>
          /\ parsed_options.gpu_ecosystem \in {"cuda", "opencl"}
          /\ ~Happened("die_backend_selection")
    /\ context.created =>
          /\ BackendChosen
          /\ context.ecosystem = parsed_options.gpu_ecosystem

\* a command line with --opencl alone has come to run its kernel on OpenCL, and
\* nothing else on it was refused
C15_Witness ==
    /\ argv.cuda = "unset" /\ argv.opencl = "true"
    /\ context.ecosystem = "opencl"
    /\ Happened("kernel_done")

LastRun == context.options.num_runs - 1

\* the results are read back after the kernel of the last run is done
ReadBackAfterLastKernel ==
    \A i \in LogIndices :
       log[i].ev = "outputs_copied_to_host" =>
          \E j \in 1..(i - 1) : log[j].ev = "kernel_done" /\ log[j].run = LastRun

\* C16 as stated: under either backend the results are copied to the host only
\* after the kernel of the last run is done on the device, and the device that
\* copy_outputs_from_device synchronizes is the device of the active backend.
C16_ActiveBackendSynchronizedForReadBack ==
    /\ ReadBackAfterLastKernel
    /\ \A i \in LogIndices :
          (log[i].ev = "synchronize" /\ log[i].at = "copy_outputs_from_device") =>
             log[i].device = context.ecosystem

\* the results of an OpenCL run have been read back, and a device synchronized
C16_Witness ==
    /\ context.ecosystem = "opencl"
    /\ Happened("outputs_copied_to_host")
    /\ \E i \in LogIndices : log[i].ev = "synchronize" /\ log[i].run = -1

\* C17 as stated: when the kernel of a run is about to be launched, the
\* zero-fills and inout reset copies issued for that run are done on the
\* device; when the host reads results back or writes them, nothing is left
\* for the device to do; and the barrier after the reset copies is on the
\* device of the active backend.
C17_BufferStepsCompleteBeforeDependents ==
    /\ pc = "launch_kernel" => queue = <<>>
    /\ pc \in {"copy_outputs_from_device", "write_buffers_to_files"} => queue = <<>>
    /\ \A i \in LogIndices :
          log[i].ev = "kernel_launched" =>
             \A j \in 1..(i - 1) :
                (log[j].ev \in {"copy_issued", "fill_issued"} /\ log[j].run = log[i].run) =>
                   \E d \in (j + 1)..(i - 1) :
                      /\ log[d].run = log[i].run
                      /\ log[d].ev \in {"copy_done", "fill_done"}
    /\ \A i \in LogIndices :
          (log[i].ev = "synchronize" /\ log[i].at = "reset_working_copy_of_inout_buffers") =>
             log[i].device = context.ecosystem

\* under OpenCL the kernel of a run has been launched after the reset copy of
\* an inout buffer was issued for that run
C17_Witness ==
    /\ context.ecosystem = "opencl"
    /\ \E i, j \in LogIndices :
          /\ j < i
          /\ log[j].ev = "copy_issued" /\ log[i].ev = "kernel_launched"
          /\ log[j].run = log[i].run

-----------------------------------------------------------------------------
(* Resources *)

\* the device resources the execution context has acquired
Acquired ==
    (IF context.created THEN {Resource("context", "")} ELSE {})
    \cup (IF context.built THEN {Resource("module", "")} ELSE {})
    \cup Range(device_buffer_resources(context))

TimesReleased(r) == Cardinality({i \in 1..Len(context.released) : context.released[i] = r})

\* C18 as stated: when the process has ended with exit code 0, after the runs
\* or after a compilation only, every device resource the execution context
\* acquired has been released exactly once, and nothing else was released.
C18_ResourcesReleasedExactlyOnce ==
    (pc = "exited" /\ status = "exit_success") =>
        /\ \A r \in Acquired : TimesReleased(r) = 1
        /\ Range(context.released) \subseteq Acquired

\* a compile-only run under CUDA has ended with exit code 0: a context was
\* created and a kernel was built
C18_Witness ==
    /\ pc = "exited" /\ status = "exit_success"
    /\ context.ecosystem = "cuda"
    /\ context.options.compile_only
    /\ context.created /\ context.built

-----------------------------------------------------------------------------
(* Preprocessor definitions *)

\* the term is defined through the generic flag: as NAME or as NAME=VALUE
DefinedThroughFlag(t) ==
    \E i \in 1..Len(argv.defines) :
       LET d == argv.defines[i]
       IN  /\ Len(d) >= 1 /\ d[1] = t
           /\ Len(d) = 1 \/ d[2] = "="

DefinedThroughOption(t) == t \in DOMAIN argv.definition_options

RequiredButUndefined ==
    {t \in cmdline_required_preprocessor_definition_terms(argv.key) :
        ~DefinedThroughFlag(t) /\ ~DefinedThroughOption(t)}

\* parse_command_line_for_kernel has come to the check of the required terms
ReachedTermCheck ==
    /\ context.created
    /\ pc # "parse_command_line_for_kernel"
    /\ ~Happened("exit_scalar_not_specified") /\ ~Happened("throw_would_overwrite")

\* C19: the check of the required definitions lets the process go on when
\* every required term is defined through the generic flag or through its own
\* option (either alone is enough), and ends it with a failure exactly when
\* some required term is defined through neither.
C19_RequiredDefinitionsCheckedOnUnion ==
    ReachedTermCheck =>
        /\ RequiredButUndefined = {} <=> Happened("kernel_options_parsed")
        /\ RequiredButUndefined # {} <=> Happened("exit_definitions_not_specified")
        /\ Happened("exit_definitions_not_specified") =>
              pc = "exited" /\ status = "exit_failure" /\ ~context.built

\* the kernel that requires T has run with T given through its option only
C19_Witness ==
    /\ argv.key = "scale"
    /\ ~DefinedThroughFlag("T") /\ DefinedThroughOption("T")
    /\ Happened("kernel_done")

-----------------------------------------------------------------------------
(* Output files *)

\* the overwrite policy given on the command line (false when not given)
OverwritePolicy == argv.overwrite = "true"

\* the files the output and inout buffers of the kernel are written to
OutputPaths ==
    LET options == [output_buffer_base_path |-> argv.output_dir,
                    write_output_buffers_to_files |-> argv.write_output]
        filenames == buffer_filenames([options |-> options, kernel_adapter_ |-> argv.key], argv)
    IN  {write_destination([options |-> options, filenames |-> filenames], n) :
            n \in DOMAIN filenames.outputs}

OutputFileExists == OutputPaths \cap env.existing_files # {}
OverwrittenFiles == env.written_files \cap env.existing_files

\* C20 as stated: a run whose output file exists already is fatal exactly when
\* the overwrite policy is false, for output and inout buffers alike, and goes
\* on to overwrite when the policy is true; with the policy false no file that
\* existed is ever written over.
C20_OverwritePolicyIsHonored ==
    /\ ~OverwritePolicy => OverwrittenFiles = {}
    /\ (OutputFileExists /\ ~OverwritePolicy) =>
          (pc = "exited" => status # "exit_success")
    /\ Happened("throw_would_overwrite") => (OutputFileExists /\ ~OverwritePolicy)

\* an output file that existed has been written over
C20_Witness ==
    /\ OverwrittenFiles # {}
    /\ status = "exit_success"

-----------------------------------------------------------------------------
(* Launch configuration that cannot be determined *)

\* the components forced on the command line do not determine the geometry
ForcedComponentsInsufficient ==
    ~(Len(argv.block) > 0 /\ (Len(argv.grid) > 0 \/ Len(argv.overall) > 0))
LaunchConfigurationFailed == Happened("throw_unable_to_deduce_launch_configuration")
KernelIssued ==
    \/ Happened("kernel_launched")
    \/ \E i \in 1..Len(queue) : queue[i].op = "kernel"

\* C21: with the default deduction of the descriptor, configuring the launch
\* ends the process without success exactly when the forced components alone
\* are not sufficient, and then no launch is configured and no kernel is ever
\* issued; a kernel is issued only with block, grid and overall dimensions set.
C21_InsufficientLaunchConfigurationIsFatal ==
    /\ LaunchConfigurationFailed =>
          ForcedComponentsInsufficient /\ pc = "exited" /\ status = "aborted"
    /\ ForcedComponentsInsufficient =>
          /\ ~context.launch.configured /\ ~KernelIssued
          /\ pc \notin {"run_loop", "zero_output_buffers", "reset_working_copy_of_inout_buffers",
                        "launch_kernel", "sync_kernel", "copy_outputs_from_device",
                        "write_buffers_to_files", "free_resources"}
          /\ status # "exit_success"
          /\ (Happened("arguments_marshaled") /\ pc # "configure_launch") =>
                LaunchConfigurationFailed
    /\ KernelIssued => context.launch.configured /\ AllThreeSet

\* grid dimensions were forced without block dimensions, and configuring the
\* launch has ended the process
C21_Witness ==
    /\ LaunchConfigurationFailed
    /\ argv.block = <<>> /\ Len(argv.grid) > 0
    /\ context.finalized_arguments.marshalled

-----------------------------------------------------------------------------
(* Scalars given on the command line *)

DeclaredScalars == {q.name : q \in scalar_parameter_details(argv.key)}
SuppliedScalars == DeclaredScalars \cap DOMAIN argv.scalars
AtMarshaling ==
    \/ pc = "finalize_kernel_arguments"
    \/ Happened("arguments_marshaled")
    \/ Happened("throw_out_of_range")

\* the raw text of scalar n is recorded, and its typed value is the parsed text
RecordedAsSupplied(n) ==
    /\ n \in DOMAIN context.scalar_raw
    /\ context.scalar_raw[n] = argv.scalars[n]
    /\ n \in DOMAIN context.scalar_typed
    /\ context.scalar_typed[n] = parse_cmdline_scalar_argument(argv.scalars[n])

\* C22: when the arguments are marshaled, every scalar the descriptor declares
\* and the command line gave a text for, required or not, has that text recorded
\* and its parsed value in the typed map, and marshaling does not fail for want
\* of the typed value of such a scalar.
C22_SuppliedScalarsAreRecordedAndTyped ==
    /\ AtMarshaling => \A n \in SuppliedScalars : RecordedAsSupplied(n)
    /\ Happened("throw_out_of_range") =>
          \A n \in SuppliedScalars : n \in DOMAIN context.scalar_typed

\* marshaling has failed looking up an optional scalar the command line gave
C22_Witness ==
    /\ Happened("throw_out_of_range")
    /\ "m" \in SuppliedScalars
    /\ "m" \notin DOMAIN context.scalar_typed

-----------------------------------------------------------------------------
(* Malformed preprocessor definitions *)

\* a definition string of the form =VALUE was given through the generic flag
MalformedDefinitionGiven ==
    \E i \in 1..Len(argv.defines) : Len(argv.defines[i]) > 0 /\ argv.defines[i][1] = "="

\* C23: a definition string with an empty name ends the process with a failure
\* exit before the kernel is compiled: main() never gets to build_kernel.
C23_EmptyDefinitionNameIsFatal ==
    MalformedDefinitionGiven =>
        /\ pc \in {"parse_command_line_initially", "initialize_execution_context",
                   "parse_command_line_for_kernel", "exited"}
        /\ ~context.built
        /\ pc = "exited" => status = "exit_failure"

\* the definition =i was given, the kernel was compiled without it and the
\* process has ended with exit code 0
C23_Witness ==
    /\ MalformedDefinitionGiven
    /\ context.built
    /\ context.finalized_preprocessor_definitions = [valued |-> EmptyMap, valueless |-> {}]
    /\ status = "exit_success"

-----------------------------------------------------------------------------
(* The compilation log *)

CompilationOver == context.built \/ Happened("die_compilation_failed")
LogSurfaced == Happened("compilation_log")

\* the log has a character that is not whitespace, a NUL it ends with aside
LogIsNotBlank ==
    \E i \in 1..Len(env.compilation_log) :
        /\ env.compilation_log[i] \notin {" ", "\t"}
        /\ ~(i = Len(env.compilation_log) /\ env.compilation_log[i] = "NUL")

\* C24: once the compilation is over its log has been surfaced if and only if
\* the compilation failed or the log has a non-whitespace character other than
\* a single NUL at its end; after a failure it is surfaced as an error.
C24_CompilationLogSurfacedIffFailedOrNotBlank ==
    /\ CompilationOver => (LogSurfaced <=> (~env.compile_ok \/ LogIsNotBlank))
    /\ ~CompilationOver => ~LogSurfaced
    /\ \A i \in LogIndices :
          (log[i].ev = "compilation_log" /\ ~env.compile_ok) => log[i].level = "err"

\* a compilation that succeeded with a log of a space and a NUL is over, and
\* the log was not surfaced
C24_Witness ==
    /\ context.built
    /\ env.compilation_log = <<" ", "NUL">>
    /\ ~LogSurfaced

-----------------------------------------------------------------------------
(* Marshaled pointers and sizes *)

MarshaledSizes == context.finalized_arguments.sizes

\* the number of bytes of the argument passed for a parameter: a device buffer
\* handle, or a value of the scalar's type (n is an int, m a double)
ArgumentByteSize(p) ==
    IF p.kind = "buffer" THEN 8 ELSE IF p.name = "m" THEN 8 ELSE 4

\* C25: after marshaling, under OpenCL the size list is as long as the pointer
\* list, one entry per parameter, and its i-th entry is the byte size of the
\* i-th argument; under CUDA the size list is empty and the pointer list has
\* one entry per parameter and a final null.
C25_PointersAndSizesAreParallel ==
    /\ (context.finalized_arguments.marshalled /\ context.ecosystem = "opencl") =>
          /\ Len(MarshaledSizes) = Len(Marshaled)
          /\ Len(Marshaled) = Len(Params)
          /\ \A i \in 1..Len(Params) : MarshaledSizes[i] = ArgumentByteSize(Params[i])
    /\ (context.finalized_arguments.marshalled /\ context.ecosystem = "cuda") =>
          /\ MarshaledSizes = <<>>
          /\ Len(Marshaled) = Len(Params) + 1
          /\ Marshaled[Len(Marshaled)] = nullptr
    /\ ~context.finalized_arguments.marshalled => Marshaled = <<>> /\ MarshaledSizes = <<>>

\* two buffers, an int and a double have been marshaled under OpenCL
C25_Witness ==
    /\ context.finalized_arguments.marshalled
    /\ context.ecosystem = "opencl"
    /\ context.kernel_adapter_ = "axpy"
    /\ MarshaledSizes = <<8, 8, 4, 8>>

-----------------------------------------------------------------------------
(* The OpenCL platform *)

PlatformIndexGiven == Len(argv.platform) > 0

\* C26: under OpenCL the execution context, with its device and command queue,
\* is created on the platform of the configured platform index, the one whose
\* existence and devices were validated; under CUDA a command line that gives
\* a platform index ends in a failure exit before any context exists.
C26_ContextIsOnTheSelectedPlatform ==
    /\ (context.created /\ context.ecosystem = "opencl") =>
          context.opencl_platform = <<SelectedPlatform>>
    /\ (PlatformIndexGiven /\ ~use_opencl(argv)) =>
          /\ pc \in {"parse_command_line_initially", "exited"}
          /\ pc = "exited" => status = "exit_failure"
          /\ ~context.created

\* platform 1 was asked for and validated, and the context was created on
\* platform 0
C26_Witness ==
    /\ context.created /\ context.ecosystem = "opencl"
    /\ argv.platform = <<1>>
    /\ context.opencl_platform = <<0>>
    /\ status = "exit_success"

-----------------------------------------------------------------------------
(* Finalized preprocessor definitions *)

Finalized == context.finalized_preprocessor_definitions
GenericStrings == Range(argv.defines)
HasEquals(g) == \E i \in 1..Len(g) : g[i] = "="
NameOf(g) == substr(g, 1, find(g, "=") - 1)
ValueOf(g) == substr(g, find(g, "=") + 1, Len(g))
WholeOf(g) == substr(g, 1, Len(g))
\* the definitions given through the option of a term the descriptor declares
DedicatedGiven == preprocessor_definition_names(argv.key) \cap DOMAIN argv.definition_options
GenericValuesOf(name) ==
    {ValueOf(g) : g \in {h \in GenericStrings : HasEquals(h) /\ NameOf(h) = name}}

\* C27: once the definitions are finalized, every generic string without '='
\* is a valueless name; every generic string NAME=VALUE with a name has NAME in
\* the valued map, with VALUE when nothing else defines NAME; every definition
\* given through its dedicated option is in the valued map with the value of
\* the option, also when a generic string defines the same name; and the maps
\* hold nothing else.
C27_FinalizedDefinitionsAreTheUnion ==
    Happened("kernel_options_parsed") =>
        /\ \A g \in GenericStrings :
              ~HasEquals(g) => WholeOf(g) \in Finalized.valueless
        /\ \A g \in GenericStrings :
              (HasEquals(g) /\ NameOf(g) # "") =>
                 /\ NameOf(g) \in DOMAIN Finalized.valued
                 /\ (NameOf(g) \notin DedicatedGiven /\ GenericValuesOf(NameOf(g)) = {ValueOf(g)})
                       => Finalized.valued[NameOf(g)] = ValueOf(g)
        /\ \A t \in DedicatedGiven :
              /\ t \in DOMAIN Finalized.valued
              /\ Finalized.valued[t] = argv.definition_options[t]
        /\ Finalized.valueless \subseteq {WholeOf(g) : g \in {h \in GenericStrings : ~HasEquals(h)}}
        /\ \A t \in DOMAIN Finalized.valued :
              Finalized.valued[t] \in
                 GenericValuesOf(t)
                 \cup (IF t \in DedicatedGiven THEN {argv.definition_options[t]} ELSE {})

\* the definition U, which the descriptor declares without requiring it, was
\* given through its own option and is not among the finalized definitions
C27_Witness ==
    /\ Happened("kernel_options_parsed")
    /\ "U" \in DedicatedGiven
    /\ "U" \notin DOMAIN Finalized.valued

-----------------------------------------------------------------------------
(* Compile-only mode *)

-----------------------------------------------------------------------------
(* Zero-filling of the output buffers *)

OutputOnlyNames == buffer_names(context.kernel_adapter_, "output")
KernelsDone == {i \in LogIndices : log[i].ev = "kernel_done"}
FillsIssued(run) == Cardinality(RunEvents("fill_issued", run))

\* what an output-only buffer holds at run `run` if nothing wrote it since the
\* run before: fresh memory at first, then what the kernel last wrote
LeftByPreviousRun(name, run) ==
    IF run = 0 THEN Uninitialized ELSE KernelOutput(name, run - 1)

\* C29: with zero-filling asked for, the kernel of every run finds every
\* output-only buffer all zeros and every inout working copy holding the
\* pristine content, and within a run the fills are issued before the copies
\* that reset the working copies; without it no fill is ever issued and the
\* kernel finds every output-only buffer as the run before left it.
C29_OutputBuffersZeroedBeforeEachRun ==
    /\ argv.zero =>
          /\ \A i \in KernelsDone :
                /\ \A name \in OutputOnlyNames : log[i].seen[name] = Zeros
                /\ \A name \in InoutNames : log[i].seen[name] = env.files[name].content
          /\ \A i \in LogIndices :
                log[i].ev = "kernel_launched" =>
                   FillsIssued(log[i].run) = Cardinality(OutputOnlyNames)
          /\ \A i, j \in LogIndices :
                (log[i].ev = "fill_issued" /\ log[j].ev = "copy_issued"
                    /\ log[i].run = log[j].run) => i < j
    /\ ~argv.zero =>
          /\ ~Happened("fill_issued") /\ ~Happened("fill_done")
          /\ \A i \in KernelsDone :
                \A name \in OutputOnlyNames :
                   log[i].seen[name] = LeftByPreviousRun(name, log[i].run)

\* the second run of a kernel with an inout and an output-only buffer has
\* executed under OpenCL with zero-filling asked for
C29_Witness ==
    /\ argv.zero
    /\ context.ecosystem = "opencl"
    /\ context.kernel_adapter_ = "mixed"
    /\ \E i \in KernelsDone : log[i].run = 1 /\ log[i].seen["B"] = Zeros

-----------------------------------------------------------------------------
(* Scalars synthesized by the descriptor *)

TypedScalars == context.scalar_typed
Synthesized == generate_additional_scalar_arguments(context)
ParsedNames == cmdline_required_scalar_argument_names(context.kernel_adapter_)
Merged == Happened("additional_scalars_generated")

\* C30: before the merge the typed scalars are the parsed ones; after it each
\* of them is still there with its parsed value, also when the descriptor
\* synthesized a value under the same name, every synthesized name that was
\* absent is there with its synthesized value, and nothing else is; the merge
\* comes after the host-side output buffers got their computed sizes and
\* before the arguments are marshaled.
C30_SynthesizedScalarsNeverReplaceParsedOnes ==
    /\ \A n \in DOMAIN TypedScalars \cap ParsedNames :
          TypedScalars[n] = parse_cmdline_scalar_argument(argv.scalars[n])
    /\ ~Merged => DOMAIN TypedScalars \subseteq ParsedNames
    /\ Merged =>
          /\ DOMAIN TypedScalars = ParsedNames \cup DOMAIN Synthesized
          /\ \A n \in DOMAIN Synthesized \ ParsedNames : TypedScalars[n] = Synthesized[n]
          /\ Happened("host_output_buffers_created")
          /\ context.host_outputs # EmptyMap
    /\ (context.finalized_arguments.marshalled \/ Happened("throw_out_of_range")) => Merged

\* the descriptor synthesized n and m, n was given as 4 on the command line,
\* and the arguments were marshaled with the parsed n and the synthesized m
C30_Witness ==
    /\ Merged /\ context.finalized_arguments.marshalled
    /\ argv.scalars["n"] = "4"
    /\ "n" \in DOMAIN Synthesized /\ Synthesized["n"] # 4
    /\ TypedScalars = ("m" :> 1) @@ ("n" :> 4)

====
